---------------------------- MODULE Spec2Model ----------------------------
(***************************************************************************)
(* Time tracking of the ClickUp MCP server: the period resolvers, the      *)
(* duration formatter, the get_time_tracking_summary handler and the       *)
(* start_timer handlers with their resolution of task names.               *)
(*                                                                         *)
(* An instant (a JavaScript Date, or the number getTime() returns) is a    *)
(* record [day, ms]: the local calendar day, counted from 1 November 2023, *)
(* and the milliseconds elapsed since that day's local midnight.  The      *)
(* order and the differences of instants are those of the epoch values.    *)
(***************************************************************************)
EXTENDS Integers, Sequences, FiniteSets, TLC

VARIABLES
  now,          \* the instant `new Date()` returns
  tz,           \* the zone rules of the process: "fixed" offset, or "dst"
  resolved,     \* the last call of a period resolver and what it returned
  fmtMs,        \* formatDuration's argument
  fmtText,      \* formatDuration's result
  world,        \* what the external service answers: the report and the time
                \* entries, or the hierarchy and the task listings
  params,       \* the parameters of the request
  pc,           \* where the request's handler stands
  dateRange,    \* its local dateRange
  report,       \* its local report
  pos,          \* the user record and the task the loops are at
  task,         \* its local task, the detail of the task at pos
  totalTime,    \* its local totalTime
  summaryItems, \* its local summaryItems, in the order of Object.keys
  calls,        \* the external calls the request has issued, in order
  result,       \* what the handler returned
  timer,        \* the timer running at the service, null if none
  taskIdToUse,  \* the start_timer handler's local taskIdToUse (targetTaskId)
  listId,       \* the list whose tasks the name resolution has asked for
  walk,         \* how many lists findTaskIDByName has asked for
  console       \* the lines written with console.error

envVars == <<now, tz>>
resolveVars == <<resolved>>
fmtVars == <<fmtMs, fmtText>>
sumVars ==
  <<world, params, pc, dateRange, report, pos, task, totalTime, summaryItems, calls, result>>
timerVars == <<timer, taskIdToUse, listId, walk, console>>
vars == <<envVars, resolveVars, fmtVars, sumVars, timerVars>>

None == [kind |-> "none"]

(***************************************************************************)
(* The calendar the Date object works on.                                  *)
(***************************************************************************)
SecondMs == 1000
MinuteMs == 60 * SecondMs
HourMs == 60 * MinuteMs
DayMs == 24 * HourMs

\* The months of the modelled window: year, month (0-based, as getMonth), days.
Months ==
  << [y |-> 2023, m |-> 10, len |-> 30],
     [y |-> 2023, m |-> 11, len |-> 31],
     [y |-> 2024, m |-> 0,  len |-> 31],
     [y |-> 2024, m |-> 1,  len |-> 29],
     [y |-> 2024, m |-> 2,  len |-> 31] >>

RECURSIVE MonthStart(_)
\* The day index of the first day of the k-th month of the window.
MonthStart(k) == IF k <= 1 THEN 0 ELSE MonthStart(k - 1) + Months[k - 1].len

NumDays == MonthStart(Len(Months) + 1)

MonthIndex(day) ==
  CHOOSE k \in 1..Len(Months) : MonthStart(k) <= day /\ day < MonthStart(k + 1)

\* Date.prototype.getFullYear, getMonth, getDate, getDay (0 = Sunday); day 0
\* of the window, 1 November 2023, is a Wednesday.
GetFullYear(t) == Months[MonthIndex(t.day)].y
GetMonth(t) == Months[MonthIndex(t.day)].m
GetDate(t) == t.day - MonthStart(MonthIndex(t.day)) + 1
GetDay(t) == (t.day + 3) % 7

\* The day index of year y, month m, day-of-month d, where m and d may lie
\* outside their ranges as the Date constructor allows (month -1 is December
\* of the year before, day 0 the last day of the month before).
DayIndex(y, m, d) ==
  LET k == (y * 12 + m) - (Months[1].y * 12 + Months[1].m) + 1
  IN  MonthStart(k) + d - 1

\* The days on which the zone's offset changes, under "dst" (the rules of the
\* United States: back on 5 November 2023, forward on 10 March 2024, at 02:00).
FallBackDay == DayIndex(2023, 10, 5)
SpringForwardDay == DayIndex(2024, 2, 10)

\* The length of a local calendar day.
DayLen(day) ==
  IF tz = "dst" /\ day = FallBackDay THEN DayMs + HourMs
  ELSE IF tz = "dst" /\ day = SpringForwardDay THEN DayMs - HourMs
  ELSE DayMs

\* The elapsed milliseconds at which the wall clock of `day` shows `wall`
\* milliseconds past 00:00.
FromWall(day, wall) ==
  IF tz = "dst" /\ day = FallBackDay /\ wall >= 2 * HourMs THEN wall + HourMs
  ELSE IF tz = "dst" /\ day = SpringForwardDay /\ wall >= 3 * HourMs THEN wall - HourMs
  ELSE wall

\* What the wall clock shows at an instant.
ToWall(t) ==
  IF tz = "dst" /\ t.day = FallBackDay /\ t.ms >= 2 * HourMs THEN t.ms - HourMs
  ELSE IF tz = "dst" /\ t.day = SpringForwardDay /\ t.ms >= 2 * HourMs THEN t.ms + HourMs
  ELSE t.ms

\* new Date(year, month, day): local midnight of that day.
NewDate(y, m, d) == [day |-> DayIndex(y, m, d), ms |-> 0]

\* new Date(year, month, day, h, min, s, ms) and Date.prototype.setHours(h, min, s, ms).
NewDateTime(y, m, d, h, mi, s, milli) ==
  [day |-> DayIndex(y, m, d),
   ms |-> FromWall(DayIndex(y, m, d), h * HourMs + mi * MinuteMs + s * SecondMs + milli)]

SetHours(t, h, mi, s, milli) ==
  [day |-> t.day, ms |-> FromWall(t.day, h * HourMs + mi * MinuteMs + s * SecondMs + milli)]

\* Date.prototype.setDate(d): the same month's day d (days outside the month
\* roll over), at the same wall-clock time.
SetDate(t, d) ==
  LET day == t.day - GetDate(t) + d
  IN  [day |-> day, ms |-> FromWall(day, ToWall(t))]

\* getTime() - 1
TimeMinus1(t) ==
  IF t.ms > 0 THEN [day |-> t.day, ms |-> t.ms - 1]
  ELSE [day |-> t.day - 1, ms |-> DayLen(t.day - 1) - 1]

\* a <= b and a < b on getTime() values
TimeLE(a, b) == a.day < b.day \/ (a.day = b.day /\ a.ms <= b.ms)
TimeLT(a, b) == a.day < b.day \/ (a.day = b.day /\ a.ms < b.ms)

RECURSIVE DaysLen(_, _)
\* The milliseconds from local midnight of day `from` to local midnight of day `to`.
DaysLen(from, to) == IF from >= to THEN 0 ELSE DayLen(from) + DaysLen(from + 1, to)

\* a.getTime() - b.getTime(), for a not before b
TimeDiff(a, b) == DaysLen(b.day, a.day) + a.ms - b.ms

(***************************************************************************)
(* The period resolver of the report tool and of the resources.            *)
(***************************************************************************)
Range(start, end) == [kind |-> "range", start_date |-> start, end_date |-> end]
Throw(message) == [kind |-> "error", message |-> message]

\* const today = new Date(now.getFullYear(), now.getMonth(), now.getDate())
today == NewDate(GetFullYear(now), GetMonth(now), GetDate(now))

yesterday == SetDate(today, GetDate(today) - 1)

startOfWeek == SetDate(today, GetDate(today) - GetDay(today))

lastWeekStart == SetDate(today, GetDate(today) - GetDay(today) - 7)

lastWeekEnd_noSetHours == SetDate(today, GetDate(today) - GetDay(today) - 1)

lastWeekEnd ==
  SetHours(SetDate(today, GetDate(today) - GetDay(today) - 1), 23, 59, 59, 999)

startOfMonth == NewDate(GetFullYear(now), GetMonth(now), 1)

startOfLastMonth == NewDate(GetFullYear(now), GetMonth(now) - 1, 1)

endOfLastMonth_monthBefore ==
  NewDateTime(GetFullYear(now), GetMonth(now) - 1, 0, 23, 59, 59, 999)

endOfLastMonth == NewDateTime(GetFullYear(now), GetMonth(now), 0, 23, 59, 59, 999)

getDateRangeForPeriod(period) ==
  CASE period = "today" -> Range(today, now)
    [] period = "yesterday" -> Range(yesterday, TimeMinus1(today))
    [] period = "this_week" -> Range(startOfWeek, now)
    [] period = "last_week" -> Range(lastWeekStart, lastWeekEnd)
    [] period = "this_month" -> Range(startOfMonth, now)
    [] period = "last_month" -> Range(startOfLastMonth, endOfLastMonth)
    [] OTHER -> Throw("Invalid period: " \o period)

(***************************************************************************)
(* The period resolver of the summary tool.  It returns the two bounds as  *)
(* decimal strings: MsString(t) is t.getTime().toString(), and ParseInt    *)
(* reads such a string back.                                               *)
(***************************************************************************)
MsString(t) == [kind |-> "msString", time |-> t]
ParseInt(s) == IF s.kind = "msString" THEN s.time ELSE [kind |-> "NaN"]

firstDayOfWeek == SetDate(today, GetDate(today) - GetDay(today))

firstDayOfLastWeek == SetDate(today, GetDate(today) - GetDay(today) - 7)

lastDayOfLastWeek ==
  SetHours(SetDate(firstDayOfLastWeek, GetDate(firstDayOfLastWeek) + 6), 23, 59, 59, 999)

firstDayOfMonth == NewDate(GetFullYear(today), GetMonth(today), 1)

firstDayOfLastMonth == NewDate(GetFullYear(today), GetMonth(today) - 1, 1)

lastDayOfLastMonth ==
  SetHours(NewDate(GetFullYear(today), GetMonth(today), 0), 23, 59, 59, 999)

getDateRangeForPeriodStr(period) ==
  CASE period = "today" -> Range(MsString(today), MsString(now))
    [] period = "yesterday" ->
         Range(MsString(SetDate(today, GetDate(today) - 1)), MsString(today))
    [] period = "this_week" -> Range(MsString(firstDayOfWeek), MsString(now))
    [] period = "last_week" ->
         Range(MsString(firstDayOfLastWeek), MsString(lastDayOfLastWeek))
    [] period = "this_month" -> Range(MsString(firstDayOfMonth), MsString(now))
    [] period = "last_month" ->
         Range(MsString(firstDayOfLastMonth), MsString(lastDayOfLastMonth))
    [] OTHER -> Range(MsString(today), MsString(now))

(***************************************************************************)
(* formatDuration of the report tool: days, hours and minutes.             *)
(***************************************************************************)
RECURSIVE TrimEnd(_)
TrimEnd(s) ==
  IF Len(s) > 0 /\ SubSeq(s, Len(s), Len(s)) = " "
  THEN TrimEnd(SubSeq(s, 1, Len(s) - 1))
  ELSE s

RECURSIVE TrimStart(_)
TrimStart(s) ==
  IF Len(s) > 0 /\ SubSeq(s, 1, 1) = " " THEN TrimStart(SubSeq(s, 2, Len(s))) ELSE s

\* String.prototype.trim
Trim(s) == TrimStart(TrimEnd(s))

formatDuration_minutesAfterHours(ms) ==
  IF ms = 0 THEN "0m"
  ELSE
    LET seconds == ms \div 1000
        minutes == seconds \div 60
        hours == minutes \div 60
        days == hours \div 24
        remainingHours == hours % 24
        remainingMinutes == minutes % 60
        r1 == IF days > 0 THEN ToString(days) \o "d " ELSE ""
        r2 == IF remainingHours > 0 \/ days > 0
              THEN r1 \o ToString(remainingHours) \o "h "
              ELSE r1
        r3 == IF remainingMinutes > 0 \/ remainingHours > 0 \/ r2 = ""
              THEN r2 \o ToString(remainingMinutes) \o "m"
              ELSE r2
    IN  Trim(r3)

formatDuration(ms) ==
  IF ms = 0 THEN "0m"
  ELSE
    LET seconds == ms \div 1000
        minutes == seconds \div 60
        hours == minutes \div 60
        days == hours \div 24
        remainingHours == hours % 24
        remainingMinutes == minutes % 60
        r1 == IF days > 0 THEN ToString(days) \o "d " ELSE ""
        r2 == IF remainingHours > 0 \/ days > 0
              THEN r1 \o ToString(remainingHours) \o "h "
              ELSE r1
        r3 == IF remainingMinutes > 0 \/ r2 = ""
              THEN r2 \o ToString(remainingMinutes) \o "m"
              ELSE r2
    IN  Trim(r3)

(***************************************************************************)
(* handleGetTimeTrackingSummary: its values and its pure steps.            *)
(***************************************************************************)
\* A request parameter that is absent, and one that is the empty string.
Undefined == [kind |-> "undefined"]
EmptyString == [kind |-> "emptyString"]
GroupByUndefined == "(undefined)"

\* !v of a string parameter
Falsy(v) == v = Undefined \/ v = EmptyString

\* The numbers Math.round((a / b) * 100) yields for a >= 0 and b >= 0, and
\* what JSON.stringify makes of them: NaN and Infinity become null.
Number(n) == [kind |-> "number", value |-> n]
NaN == [kind |-> "NaN"]
Infinity == [kind |-> "Infinity"]
JsonNull == [kind |-> "null"]

Percentage_fraction(part, whole) ==
  IF whole = 0 THEN (IF part = 0 THEN NaN ELSE Infinity)
  ELSE Number((2 * part + whole) \div (2 * whole))

\* Math.round((part / whole) * 100): the nearest integer, halves upwards.
Percentage(part, whole) ==
  IF whole = 0 THEN (IF part = 0 THEN NaN ELSE Infinity)
  ELSE Number((200 * part + whole) \div (2 * whole))

JsonNumber(v) == IF v.kind = "number" THEN v ELSE JsonNull

\* formatDuration of the summary tool: hours, minutes and seconds.
formatDurationHMS(millis) ==
  LET seconds == (millis \div 1000) % 60
      minutes == (millis \div (1000 * 60)) % 60
      hours == millis \div (1000 * 60 * 60)
  IN  ToString(hours) \o "h " \o ToString(minutes) \o "m " \o ToString(seconds) \o "s"

\* parseInt of a string of decimal digits.
Digit(c) == CHOOSE d \in 0..9 : ToString(d) = c
RECURSIVE ParseDigits(_)
ParseDigits(s) ==
  IF Len(s) = 0 THEN 0
  ELSE 10 * ParseDigits(SubSeq(s, 1, Len(s) - 1)) + Digit(SubSeq(s, Len(s), Len(s)))

\* const entryDuration = entry.duration ? parseInt(entry.duration) : 0
EntryDuration(entry) == IF entry.duration = "" THEN 0 ELSE ParseDigits(entry.duration)

\* The key and the name of an entry's day: year-month-day of its local start,
\* and the date part of toLocaleString (en-US).
DayKey_monthOnly(entry) ==
  LET entryDate == ParseInt(entry.start)
  IN  ToString(GetFullYear(entryDate)) \o "-" \o ToString(GetMonth(entryDate) + 1)

DayKey(entry) ==
  LET entryDate == ParseInt(entry.start)
  IN  ToString(GetFullYear(entryDate)) \o "-" \o ToString(GetMonth(entryDate) + 1)
        \o "-" \o ToString(GetDate(entryDate))

DayName(entry) ==
  LET entryDate == ParseInt(entry.start)
  IN  ToString(GetMonth(entryDate) + 1) \o "/" \o ToString(GetDate(entryDate))
        \o "/" \o ToString(GetFullYear(entryDate))

\* const { groupBy = 'task' } = parameters
GroupByOf(p) == IF p.groupBy = GroupByUndefined THEN "task" ELSE p.groupBy

\* The switch on groupBy: the key and the name of the group of a task.
GroupingKey(groupBy, taskId, detail) ==
  CASE groupBy = "list" -> detail.list.id
    [] groupBy = "space" -> detail.space.id
    [] OTHER -> taskId

GroupName(groupBy, taskData, detail) ==
  CASE groupBy = "list" -> detail.list.name
    [] groupBy = "space" -> detail.space.name
    [] OTHER -> taskData.name

\* The place of the entry with key k in a sequence of keyed entries, 0 if none.
IndexOfKey(items, k) ==
  IF \E i \in 1..Len(items) : items[i].key = k
  THEN CHOOSE i \in 1..Len(items) : items[i].key = k
  ELSE 0

\* if (!tasks[taskId]) tasks[taskId] = {id, name, time: 0}; tasks[taskId].time += amount
AddToTask_assign(tasks, taskId, taskName, amount) ==
  LET with == IF IndexOfKey(tasks, taskId) = 0
              THEN Append(tasks, [key |-> taskId, id |-> taskId, name |-> taskName, time |-> 0])
              ELSE tasks
      i == IndexOfKey(with, taskId)
  IN  [with EXCEPT ![i].time = amount]

AddToTask(tasks, taskId, taskName, amount) ==
  LET with == IF IndexOfKey(tasks, taskId) = 0
              THEN Append(tasks, [key |-> taskId, id |-> taskId, name |-> taskName, time |-> 0])
              ELSE tasks
      i == IndexOfKey(with, taskId)
  IN  [with EXCEPT ![i].time = @ + amount]

\* if (!summaryItems[key]) summaryItems[key] = {groupName, time: 0, tasks: {}};
\* summaryItems[key].time += amount
AddToGroupTime_assign(items, key, groupName, amount) ==
  LET with == IF IndexOfKey(items, key) = 0
              THEN Append(items, [key |-> key, groupName |-> groupName, time |-> 0,
                                  tasks |-> <<>>])
              ELSE items
      i == IndexOfKey(with, key)
  IN  [with EXCEPT ![i].time = amount]

AddToGroupTime(items, key, groupName, amount) ==
  LET with == IF IndexOfKey(items, key) = 0
              THEN Append(items, [key |-> key, groupName |-> groupName, time |-> 0,
                                  tasks |-> <<>>])
              ELSE items
      i == IndexOfKey(with, key)
  IN  [with EXCEPT ![i].time = @ + amount]

\* The body of the loops: the group's time and the group's task both grow by amount.
AddToGroup(items, key, groupName, taskId, taskName, amount) ==
  LET grown == AddToGroupTime(items, key, groupName, amount)
      i == IndexOfKey(grown, key)
  IN  [grown EXCEPT ![i].tasks = AddToTask(@, taskId, taskName, amount)]

RECURSIVE AddEntries(_, _, _, _)
\* for (const entry of entries): each entry into the group of its day.
AddEntries(items, entries, taskId, taskName) ==
  IF entries = <<>> THEN items
  ELSE AddEntries(AddToGroup(items, DayKey(Head(entries)), DayName(Head(entries)),
                             taskId, taskName, EntryDuration(Head(entries))),
                  Tail(entries), taskId, taskName)

\* totalTime += userData.time
AddUserTime_taskTimes(total, userData) ==
  LET RECURSIVE Sum(_)
      Sum(ts) == IF ts = <<>> THEN 0 ELSE Head(ts).time + Sum(Tail(ts))
  IN  total + Sum(userData.tasks)

AddUserTime_lastUser(total, userData) == userData.time

AddUserTime(total, userData) == total + userData.time

SortByTimeDesc_unsorted(arr) == arr

RECURSIVE SortByTimeDesc(_)
\* Array.prototype.sort((a, b) => b.time - a.time): stable, the larger time first.
SortByTimeDesc(arr) ==
  IF Len(arr) <= 1 THEN arr
  ELSE LET rest == SortByTimeDesc(Tail(arr))
           k == Cardinality({i \in 1..Len(rest) : rest[i].time > Head(arr).time})
       IN  SubSeq(rest, 1, k) \o <<Head(arr)>> \o SubSeq(rest, k + 1, Len(rest))

\* One group of the summary array, as JSON.stringify writes it.
SummaryGroup(item, total) ==
  [groupKey |-> item.key,
   groupName |-> item.groupName,
   time |-> item.time,
   timeFormatted |-> formatDurationHMS(item.time),
   percentage |-> JsonNumber(Percentage(item.time, total)),
   tasks |-> SortByTimeDesc(
               [i \in 1..Len(item.tasks) |->
                  [id |-> item.tasks[i].key,
                   name |-> item.tasks[i].name,
                   time |-> item.tasks[i].time,
                   timeFormatted |-> formatDurationHMS(item.tasks[i].time),
                   percentage |-> JsonNumber(Percentage(item.tasks[i].time, item.time))]])]

SummaryArray(items, total) ==
  SortByTimeDesc([i \in 1..Len(items) |-> SummaryGroup(items[i], total)])

PeriodText(period) ==
  CASE period = "today" -> "Today"
    [] period = "yesterday" -> "Yesterday"
    [] period = "this_week" -> "This week"
    [] period = "last_week" -> "Last week"
    [] period = "this_month" -> "This month"
    [] period = "last_month" -> "Last month"
    [] period = "custom" -> "Custom period"
    [] OTHER -> ""

\* The handler's two returns.
SummaryResult(p, total, items) ==
  [kind |-> "summary",
   period |-> PeriodText(p.period),
   groupedBy |-> GroupByOf(p),
   totalTime |-> total,
   totalTimeFormatted |-> formatDurationHMS(total),
   summary |-> SummaryArray(items, total)]

ErrorResult(message) ==
  [kind |-> "error", text |-> "Error getting time tracking summary: " \o message]

\* The tasks of user record u of a report (none outside the report), and the
\* place of the next task after place <<u, t>>: the same record's next task,
\* or the first task of the next record that has one; past the last record
\* when there is none.
HasData(rep) == "data" \in DOMAIN rep
TasksOf(rep, u) == IF u \in 1..Len(rep.data) THEN rep.data[u].tasks ELSE <<>>

RECURSIVE FirstWithTasks(_, _)
FirstWithTasks(rep, u) ==
  IF u > Len(rep.data) \/ TasksOf(rep, u) # <<>> THEN u ELSE FirstWithTasks(rep, u + 1)

NextPos(rep, at) ==
  IF at[2] < Len(TasksOf(rep, at[1])) THEN <<at[1], at[2] + 1>>
  ELSE <<FirstWithTasks(rep, at[1] + 1), 1>>

RECURSIVE EnterUsers(_, _, _, _)
\* totalTime after the loop has entered the user records from..to.
EnterUsers(total, rep, from, to) ==
  IF from > to \/ from > Len(rep.data) THEN total
  ELSE EnterUsers(AddUserTime(total, rep.data[from]), rep, from + 1, to)

(***************************************************************************)
(* The inputs.                                                             *)
(***************************************************************************)
MaxDays == 2
MaxUsers == 2
MaxEntries == 2

NamedPeriods ==
  {"today", "yesterday", "this_week", "last_week", "this_month", "last_month"}

\* What a caller may pass as period: the tokens, and two strings that are none.
PeriodInputs == NamedPeriods \cup {"custom", "next_week", "TODAY"}

Zones == {"fixed", "dst"}

\* The current instants: every day from 1 December 2023 to 31 March 2024, at
\* midnight, one millisecond later, at midday and in the day's last millisecond.
NowDays == DayIndex(2023, 11, 1) .. (NumDays - 1)
NowInstants ==
  UNION { { [day |-> d, ms |-> m] : m \in {0, 1, 12 * HourMs, DayLen(d) - 1} } :
          d \in NowDays }

\* The durations formatted: up to MaxDays days, with hours, minutes, seconds
\* and milliseconds at the ends and inside of their ranges.
Durations ==
  { d * DayMs + h * HourMs + m * MinuteMs + sec * SecondMs + milli :
      d \in 0..MaxDays, h \in {0, 1, 23}, m \in {0, 1, 59}, sec \in {0, 30},
      milli \in {0, 999} }

InitEnv == /\ tz \in Zones
           /\ now \in NowInstants

\* The tasks of the workspace: their names, and the list and the space the
\* task service reports for each (both tasks in one space, in two lists).
TaskIds == {"t1", "t2"}
TaskName(id) == IF id = "t1" THEN "A" ELSE "B"
TaskDetail(id) ==
  [id |-> id,
   name |-> TaskName(id),
   list |-> IF id = "t1" THEN [id |-> "l1", name |-> "Backlog"]
            ELSE [id |-> "l2", name |-> "Sprint"],
   space |-> [id |-> "s1", name |-> "Product"]]

\* The reports the service may answer: up to MaxUsers user records, each with
\* a time of its own and any of the tasks, each with a time.
UserTimes == {0, 5000}
TaskTimes == {0, 3000}

TaskIdSeqs == { <<>>, <<"t1">>, <<"t2">>, <<"t1", "t2">> }

UserTasks(times) ==
  UNION { { [i \in DOMAIN ids |-> [id |-> ids[i], name |-> TaskName(ids[i]), time |-> tm[i]]] :
              tm \in [DOMAIN ids -> times] } : ids \in TaskIdSeqs }

UserRecords(times) == { [time |-> t, tasks |-> ts] : t \in UserTimes, ts \in UserTasks(times) }

ReportsOver(times) ==
  { [data |-> d] : d \in UNION { [1..n -> UserRecords(times)] : n \in 0..MaxUsers } }

\* A response without data.
NoDataReport == [status |-> "empty"]

Reports == ReportsOver(TaskTimes) \cup {NoDataReport}

\* The time entries the service may answer for a task: up to MaxEntries of
\* these, on two days, one without a duration.
Entries ==
  << [start |-> MsString([day |-> DayIndex(2024, 0, 8), ms |-> 9 * HourMs]), duration |-> "1000"],
     [start |-> MsString([day |-> DayIndex(2024, 0, 9), ms |-> 0]), duration |-> "2500"],
     [start |-> MsString([day |-> DayIndex(2024, 0, 8), ms |-> DayMs - 1]), duration |-> ""] >>

EntryLists ==
  { SelectSeq(Entries, LAMBDA e : e \in { Entries[i] : i \in I }) :
      I \in { J \in SUBSET DOMAIN Entries : Cardinality(J) <= MaxEntries } }

NoEntries == [id \in TaskIds |-> <<>>]

\* The answers explored: any list of entries for task t1, none or one entry
\* for every other task.
EntryAnswers ==
  { [id \in TaskIds |-> IF id = "t1" THEN es ELSE other] :
      es \in EntryLists, other \in {e \in EntryLists : Len(e) <= 1 /\ \A i \in DOMAIN e : e[i].duration = "2500"} }

\* The requests.  Every period input, with the default grouping; every
\* combination of the bounds of a custom period; every grouping.
DateInputs ==
  { Undefined, EmptyString, MsString([day |-> DayIndex(2024, 0, 8), ms |-> 0]) }

Request(period, start, end, groupBy) ==
  [period |-> period, start_date |-> start, end_date |-> end, groupBy |-> groupBy]

PeriodRequests ==
  { Request(p, Undefined, Undefined, GroupByUndefined) : p \in PeriodInputs \ {"custom"} }
    \cup { Request("custom", s, e, GroupByUndefined) : s \in DateInputs, e \in DateInputs }

GroupRequests ==
  { Request("this_week", Undefined, Undefined, g) : g \in {"task", "list", "space"} }

DayRequests == { Request("last_week", Undefined, Undefined, "day") }

\* The report of the specification's end-to-end example, and its neighbours.
ExampleReport ==
  [data |-> << [time |-> 5000,
                tasks |-> << [id |-> "t1", name |-> "A", time |-> 3000],
                             [id |-> "t2", name |-> "B", time |-> 2000] >>] >>]

\* What is explored: every period request against a few reports, every
\* grouping by task, list or space against every report, and the grouping by
\* day (which does not read the tasks' times) against every report with one
\* task time and every answer of the time entries.
Scenario ==
  \/ \E r \in PeriodRequests, rep \in {ExampleReport, NoDataReport, [data |-> <<>>]} :
       /\ params = r
       /\ world = [report |-> rep, entries |-> NoEntries]
  \/ \E r \in GroupRequests, rep \in Reports :
       /\ params = r
       /\ world = [report |-> rep, entries |-> NoEntries]
  \/ \E r \in DayRequests, rep \in ReportsOver({3000}), es \in EntryAnswers :
       /\ params = r
       /\ world = [report |-> rep, entries |-> es]

\* The parts of the state a specification does not use.
NotFormatted == "(not formatted)"

EnvIdle == /\ tz = "fixed"
           /\ now = [day |-> DayIndex(2023, 11, 1), ms |-> 0]

FormatIdle == /\ fmtMs = 0
              /\ fmtText = NotFormatted

SummaryIdle == /\ world = None
               /\ params = None
               /\ pc = "idle"
               /\ dateRange = None
               /\ report = None
               /\ pos = <<0, 0>>
               /\ task = None
               /\ totalTime = 0
               /\ summaryItems = <<>>
               /\ calls = <<>>
               /\ result = None

TimerIdle == /\ timer = None
             /\ taskIdToUse = None
             /\ listId = None
             /\ walk = 0
             /\ console = <<>>

(***************************************************************************)
(* The resolvers applied: SpecResolve.                                     *)
(***************************************************************************)
InitResolve == /\ InitEnv
               /\ resolved = None
               /\ FormatIdle
               /\ SummaryIdle
               /\ TimerIdle

\* The report tool, or a resource, resolves period p.
ToolResolve(p) ==
  /\ resolved = None
  /\ resolved' = [kind |-> "tool", period |-> p, range |-> getDateRangeForPeriod(p)]
  /\ UNCHANGED <<timerVars, envVars, fmtVars, sumVars>>

\* The summary handler's resolver resolves period p.
SummaryResolve(p) ==
  /\ resolved = None
  /\ resolved' = [kind |-> "summary", period |-> p, range |-> getDateRangeForPeriodStr(p)]
  /\ UNCHANGED <<timerVars, envVars, fmtVars, sumVars>>

NextResolve == \/ \E p \in PeriodInputs : ToolResolve(p)
               \/ \E p \in PeriodInputs : SummaryResolve(p)

SpecResolve == InitResolve /\ [][NextResolve]_vars

(***************************************************************************)
(* The formatter applied: SpecFormat.                                      *)
(***************************************************************************)
InitFormat == /\ EnvIdle
              /\ resolved = None
              /\ fmtMs \in Durations
              /\ fmtText = NotFormatted
              /\ SummaryIdle
              /\ TimerIdle

Format ==
  /\ fmtText = NotFormatted
  /\ fmtText' = formatDuration(fmtMs)
  /\ UNCHANGED <<timerVars, envVars, resolveVars, fmtMs, sumVars>>

NextFormat == Format

SpecFormat == InitFormat /\ [][NextFormat]_vars

(***************************************************************************)
(* handleGetTimeTrackingSummary, one action for each stretch between two   *)
(* awaits: Spec.                                                           *)
(***************************************************************************)
Init ==
  /\ tz = "fixed"
  /\ now = [day |-> DayIndex(2024, 0, 10), ms |-> 12 * HourMs]
  /\ resolved = None
  /\ FormatIdle
  /\ Scenario
  /\ pc = "start"
  /\ dateRange = [start_date |-> EmptyString, end_date |-> EmptyString]
  /\ report = None
  /\ pos = <<0, 0>>
  /\ task = None
  /\ totalTime = 0
  /\ summaryItems = <<>>
  /\ calls = <<>>
  /\ result = None
  /\ TimerIdle

\* if (!start_date || !end_date)
CustomBoundsMissing_both(p) == Falsy(p.start_date) /\ Falsy(p.end_date)

CustomBoundsMissing(p) == Falsy(p.start_date) \/ Falsy(p.end_date)

\* The loops from the place after `at` to the next await, or to the return.
Continue(rep, at, total, items) ==
  LET np == NextPos(rep, at)
      tot == EnterUsers(total, rep, at[1] + 1, np[1])
  IN  /\ pos' = np
      /\ totalTime' = tot
      /\ summaryItems' = items
      /\ IF np[1] > Len(rep.data)
         THEN /\ pc' = "done"
              /\ result' = SummaryResult(params, tot, items)
              /\ calls' = calls
         ELSE /\ pc' = "task"
              /\ result' = result
              /\ calls' = Append(calls, [op |-> "getTask",
                                         taskId |-> rep.data[np[1]].tasks[np[2]].id])

\* The date range is settled and the report is asked for; a custom period
\* without both bounds throws before that.
Start ==
  /\ pc = "start"
  /\ IF params.period = "custom" /\ CustomBoundsMissing(params)
     THEN /\ pc' = "done"
          /\ result' = ErrorResult("Custom period requires both start_date and end_date")
          /\ UNCHANGED <<dateRange, calls>>
     ELSE LET range == IF params.period = "custom"
                       THEN [start_date |-> params.start_date, end_date |-> params.end_date]
                       ELSE [start_date |-> getDateRangeForPeriodStr(params.period).start_date,
                             end_date |-> getDateRangeForPeriodStr(params.period).end_date]
          IN  /\ dateRange' = range
              /\ calls' = Append(calls, [op |-> "getTimeTrackingReport",
                                         start_date |-> range.start_date,
                                         end_date |-> range.end_date])
              /\ pc' = "report"
              /\ UNCHANGED result
  /\ UNCHANGED <<timerVars, envVars, resolveVars, fmtVars, world, params, report, pos, task,
                 totalTime, summaryItems>>

\* The report arrives.
ReportReturns ==
  /\ pc = "report"
  /\ report' = world.report
  /\ IF HasData(world.report)
     THEN Continue(world.report, <<0, 0>>, totalTime, summaryItems)
     ELSE /\ pc' = "done"
          /\ result' = SummaryResult(params, totalTime, summaryItems)
          /\ UNCHANGED <<pos, totalTime, summaryItems, calls>>
  /\ UNCHANGED <<timerVars, envVars, resolveVars, fmtVars, world, params, dateRange, task>>

\* The detail of the task at pos arrives.
TaskReturns ==
  /\ pc = "task"
  /\ LET taskData == report.data[pos[1]].tasks[pos[2]]
         detail == TaskDetail(taskData.id)
         groupBy == GroupByOf(params)
     IN  /\ task' = detail
         /\ IF groupBy = "day"
            THEN /\ pc' = "entries"
                 /\ calls' = Append(calls, [op |-> "getTimeEntries",
                                            task_id |-> taskData.id,
                                            start_date |-> dateRange.start_date,
                                            end_date |-> dateRange.end_date])
                 /\ UNCHANGED <<pos, totalTime, summaryItems, result>>
            ELSE Continue(report, pos, totalTime,
                          AddToGroup(summaryItems,
                                     GroupingKey(groupBy, taskData.id, detail),
                                     GroupName(groupBy, taskData, detail),
                                     taskData.id, detail.name, taskData.time))
  /\ UNCHANGED <<timerVars, envVars, resolveVars, fmtVars, world, params, dateRange, report>>

\* The time entries of the task at pos arrive.
EntriesReturn ==
  /\ pc = "entries"
  /\ Continue(report, pos, totalTime,
              AddEntries(summaryItems, world.entries[task.id], task.id, task.name))
  /\ UNCHANGED <<timerVars, envVars, resolveVars, fmtVars, world, params, dateRange, report, task>>

\* The awaited call throws: the catch returns the error.
FailureMessage(at) ==
  CASE at = "report" -> "Failed to get time tracking report: Network Error"
    [] at = "task" -> "Failed to get task: Network Error"
    [] at = "entries" -> "Failed to get time entries: Network Error"

CallFails_reissue ==
  /\ pc \in {"report", "task", "entries"}
  /\ pc' = "done"
  /\ calls' = Append(calls, calls[Len(calls)])
  /\ result' = ErrorResult(FailureMessage(pc))
  /\ UNCHANGED <<timerVars, envVars, resolveVars, fmtVars, world, params, dateRange, report, pos,
                 task, totalTime, summaryItems>>

CallFails ==
  /\ pc \in {"report", "task", "entries"}
  /\ pc' = "done"
  /\ result' = ErrorResult(FailureMessage(pc))
  /\ UNCHANGED <<timerVars, envVars, resolveVars, fmtVars, world, params, dateRange, report, pos,
                 task, totalTime, summaryItems, calls>>

Next == \/ Start
        \/ ReportReturns
        \/ TaskReturns
        \/ EntriesReturn
        \/ CallFails

Spec == Init /\ [][Next]_vars

RECURSIVE Aggregate(_, _, _, _, _)
\* The loops of the handler from the place after `at` to the return, when no
\* call fails: what Continue, TaskReturns and EntriesReturn do step by step.
Aggregate(p, w, at, total, items) ==
  LET rep == w.report
      np == NextPos(rep, at)
      tot == EnterUsers(total, rep, at[1] + 1, np[1])
  IN  IF np[1] > Len(rep.data) THEN SummaryResult(p, tot, items)
      ELSE LET taskData == rep.data[np[1]].tasks[np[2]]
               detail == TaskDetail(taskData.id)
               groupBy == GroupByOf(p)
           IN  Aggregate(p, w, np, tot,
                         IF groupBy = "day"
                         THEN AddEntries(items, w.entries[detail.id], detail.id, detail.name)
                         ELSE AddToGroup(items,
                                         GroupingKey(groupBy, taskData.id, detail),
                                         GroupName(groupBy, taskData, detail),
                                         taskData.id, detail.name, taskData.time))

\* The summary the handler returns for the answers w of the service.
SummaryOf(p, w) ==
  IF HasData(w.report) THEN Aggregate(p, w, <<0, 0>>, 0, <<>>)
  ELSE SummaryResult(p, 0, <<>>)

(***************************************************************************)
(* The resolution of task names and list names.                            *)
(***************************************************************************)
\* A string parameter that is absent, and !v of a string parameter.
Absent == "(undefined)"
Missing(v) == v = Absent \/ v = ""

\* String.prototype.toLowerCase on the letters A to Z.
Upper == "ABCDEFGHIJKLMNOPQRSTUVWXYZ"
Lower == "abcdefghijklmnopqrstuvwxyz"

ToLowerChar(c) ==
  IF \E i \in 1..Len(Upper) : SubSeq(Upper, i, i) = c
  THEN LET i == CHOOSE j \in 1..Len(Upper) : SubSeq(Upper, j, j) = c
       IN  SubSeq(Lower, i, i)
  ELSE c

RECURSIVE toLowerCase(_)
toLowerCase(s) ==
  IF s = "" THEN "" ELSE ToLowerChar(SubSeq(s, 1, 1)) \o toLowerCase(SubSeq(s, 2, Len(s)))

\* t.name.toLowerCase() === taskName.toLowerCase()
NameMatches_caseSensitive(name, query) == name = query

NameMatches(name, query) == toLowerCase(name) = toLowerCase(query)

\* tasks.find(t => ...): the place of the first task of that name, 0 if none.
FindTask(tasks, query) ==
  LET hits == {i \in 1..Len(tasks) : NameMatches(tasks[i].name, query)}
  IN  IF hits = {} THEN 0 ELSE CHOOSE i \in hits : \A j \in hits : i <= j

\* The nodes of the hierarchy: hierarchy.root.children are the spaces, the
\* children of a space are lists and folders, those of a folder are lists.
Node(type, id, name, children) ==
  [type |-> type, id |-> id, name |-> name, children |-> children]

\* children.filter(c => c.type === type)
FilterType(children, type) == SelectSeq(children, LAMBDA c : c.type = type)

RECURSIVE Flatten(_)
Flatten(seqs) == IF seqs = <<>> THEN <<>> ELSE Head(seqs) \o Flatten(Tail(seqs))

\* The lists in the order findTaskIDByName asks for their tasks: space after
\* space, in each the lists directly in the space, then the lists of its
\* folders, folder after folder.
ListsOfSpace_foldersFirst(spaceNode) ==
  Flatten([f \in 1..Len(FilterType(spaceNode.children, "folder")) |->
             FilterType(FilterType(spaceNode.children, "folder")[f].children, "list")])
    \o FilterType(spaceNode.children, "list")

ListsOfSpace(spaceNode) ==
  FilterType(spaceNode.children, "list")
    \o Flatten([f \in 1..Len(FilterType(spaceNode.children, "folder")) |->
                  FilterType(FilterType(spaceNode.children, "folder")[f].children, "list")])

ListsInOrder(hierarchy) ==
  Flatten([s \in 1..Len(hierarchy) |-> ListsOfSpace(hierarchy[s])])

\* workspaceService.findIDByNameInHierarchy(hierarchy, name, 'list'): the
\* first list of that name, whatever the case of its letters, on a walk of the
\* tree that visits the children of every node in their order.
RECURSIVE NodesDepthFirst(_)
NodesDepthFirst(nodes) ==
  IF nodes = <<>> THEN <<>>
  ELSE <<Head(nodes)>> \o NodesDepthFirst(Head(nodes).children)
         \o NodesDepthFirst(Tail(nodes))

findIDByNameInHierarchy(hierarchy, name, type) ==
  LET nodes == FilterType(NodesDepthFirst(hierarchy), type)
      i == FindTask(nodes, name)
  IN  IF i = 0 THEN Undefined ELSE [id |-> nodes[i].id, name |-> nodes[i].name]

(***************************************************************************)
(* The workspaces and the start_timer requests explored.                   *)
(***************************************************************************)
ListNode(id, name) == Node("list", id, name, <<>>)

ProductSpace(children) == Node("space", "s1", "Product", children)
OpsSpace == Node("space", "s2", "Ops", <<ListNode("l3", "backlog")>>)
SprintFolder == Node("folder", "f1", "Q1", <<ListNode("l2", "Sprint")>>)

\* Three lists, two of them of one name but for the case; the folder after
\* or before the list that is directly in its space; the spaces in either
\* order; and a workspace without spaces.
Hierarchies ==
  { <<ProductSpace(<<ListNode("l1", "Backlog"), SprintFolder>>), OpsSpace>>,
    <<ProductSpace(<<SprintFolder, ListNode("l1", "Backlog")>>), OpsSpace>>,
    <<OpsSpace, ProductSpace(<<SprintFolder, ListNode("l1", "Backlog")>>)>>,
    <<>> }

ListIds == {"l1", "l2", "l3"}

\* The tasks: two of one name, and one whose name only begins with it.
TaskPool ==
  << [id |-> "t3", name |-> "Fix Bugs"],
     [id |-> "t1", name |-> "Fix Bug"],
     [id |-> "t2", name |-> "Fix Bug"] >>

PoolIds == {TaskPool[i].id : i \in DOMAIN TaskPool}

\* Every placing of the tasks in the lists; taskService.getTasks answers the
\* tasks placed in the list, and nothing for an id that is no list's.
TaskListings ==
  { [l \in ListIds |-> SelectSeq(TaskPool, LAMBDA t : place[t.id] = l)] :
      place \in [PoolIds -> ListIds] }

TasksOfList(listing, id) == IF id \in DOMAIN listing THEN listing[id] ELSE <<>>

\* The task the service names in a time entry.
ServiceTask(id) ==
  IF id \in PoolIds
  THEN TaskPool[CHOOSE i \in DOMAIN TaskPool : TaskPool[i].id = id]
  ELSE [id |-> id, name |-> "Task " \o id]

\* The time entry of a running timer.
TimerEntry(entryId, taskId, description) ==
  [id |-> entryId, task |-> ServiceTask(taskId), description |-> description]

Null == [kind |-> "null"]
RunningTimers == {Null, TimerEntry("e0", "t3", "review")}

StartTimerRequest(handler, taskId, taskName, listName) ==
  [handler |-> handler, taskId |-> taskId, taskName |-> taskName, listName |-> listName]

\* The requests: with or without a task id, with a name written in other
\* case than the task's, with a name that is only the beginning of a task's
\* name, or with none; the tool's handler also with the name of a list.
StartTimerRequests ==
  { StartTimerRequest("handleStartTimer", id, name, Absent) :
      id \in {Absent, "t9"}, name \in {Absent, "fix bug", "Fix"} }
    \cup { StartTimerRequest("startTimerTool", id, name, list) :
             id \in {Absent, "t9"}, name \in {Absent, "fix bug", "Fix"},
             list \in {Absent, "backlog", "Nowhere"} }

(***************************************************************************)
(* The start_timer handlers, one action for each stretch between two       *)
(* awaits: SpecTimer.                                                      *)
(***************************************************************************)
InitTimer ==
  /\ EnvIdle
  /\ resolved = None
  /\ FormatIdle
  /\ \E h \in Hierarchies, l \in TaskListings : world = [hierarchy |-> h, tasks |-> l]
  /\ params \in StartTimerRequests
  /\ pc = "start"
  /\ dateRange = None
  /\ report = None
  /\ pos = <<0, 0>>
  /\ task = None
  /\ totalTime = 0
  /\ summaryItems = <<>>
  /\ calls = <<>>
  /\ result = None
  /\ timer \in RunningTimers
  /\ taskIdToUse = Absent
  /\ listId = Absent
  /\ walk = 0
  /\ console = <<>>

sumLocals == <<dateRange, report, pos, task, totalTime, summaryItems>>

\* What the handlers return, and the error handleStartTimer throws outside
\* of its try block (its promise is rejected).
Rejected(message) == [kind |-> "rejected", message |-> message]

NotStarted(currentTimer) ==
  [kind |-> "json",
   success |-> FALSE,
   message |-> "There's already a timer running for task \"" \o currentTimer.task.name
                 \o "\". Please stop it first.",
   currentTimer |-> [taskId |-> currentTimer.task.id,
                     taskName |-> currentTimer.task.name,
                     description |-> currentTimer.description]]

Started(timeEntry) ==
  [kind |-> "json",
   success |-> TRUE,
   message |-> "Timer started for task \"" \o timeEntry.task.name \o "\"",
   timeEntry |-> [id |-> timeEntry.id,
                  taskId |-> timeEntry.task.id,
                  taskName |-> timeEntry.task.name,
                  description |-> timeEntry.description]]

StartError(message) == [kind |-> "text", text |-> "Error starting timer: " \o message]

ToolStarted(targetTaskId, started) ==
  [kind |-> "json",
   status |-> "Timer started",
   task_id |-> targetTaskId,
   task_name |-> started.task.name]

ToolError(message) == [kind |-> "json", status |-> "Error", message |-> message]

\* The message of the error an external call throws.
UpstreamMessage(at) ==
  CASE at = "hierarchy" -> "Failed to get workspace hierarchy: Network Error"
    [] at = "tasks" -> "Failed to get tasks: Network Error"
    [] at = "current" -> "Failed to get current timer: Network Error"
    [] at = "starting" -> "Failed to start timer: Network Error"

TaskNotFound(taskName) == "Task with name \"" \o taskName \o "\" not found"

\* handleStartTimer past the resolution of the task: the current timer is
\* asked for.
AskCurrentTimer(id) ==
  /\ taskIdToUse' = id
  /\ calls' = Append(calls, [op |-> "getCurrentTimer"])
  /\ pc' = "current"
  /\ UNCHANGED result

\* findTaskIDByName returned undefined: handleStartTimer throws.
ThrowNotFound ==
  /\ pc' = "done"
  /\ result' = Rejected(TaskNotFound(params.taskName))
  /\ UNCHANGED <<taskIdToUse, calls>>

\* findTaskIDByName asks for the tasks of the list after the first n lists of
\* its walk, or returns undefined when there is none.
AskNextList(n) ==
  LET lists == ListsInOrder(world.hierarchy)
  IN  IF n < Len(lists)
      THEN /\ walk' = n + 1
           /\ listId' = lists[n + 1].id
           /\ calls' = Append(calls, [op |-> "getTasks", listId |-> lists[n + 1].id])
           /\ pc' = "tasks"
           /\ UNCHANGED <<taskIdToUse, result>>
      ELSE /\ ThrowNotFound
           /\ UNCHANGED <<walk, listId>>

\* handleStartTimer is called.
HandleStartTimer ==
  /\ pc = "start"
  /\ params.handler = "handleStartTimer"
  /\ IF ~Missing(params.taskName) /\ Missing(params.taskId)
     THEN /\ calls' = Append(calls, [op |-> "getWorkspaceHierarchy"])
          /\ pc' = "hierarchy"
          /\ UNCHANGED <<taskIdToUse, result>>
     ELSE IF Missing(params.taskId)
          THEN /\ pc' = "done"
               /\ result' = Rejected("Either taskId or taskName must be provided")
               /\ UNCHANGED <<taskIdToUse, calls>>
          ELSE AskCurrentTimer(params.taskId)
  /\ UNCHANGED <<envVars, resolveVars, fmtVars, world, params, sumLocals, console, timer,
                 listId, walk>>

\* The hierarchy arrives in findTaskIDByName.
FindHierarchyReturns ==
  /\ pc = "hierarchy"
  /\ params.handler = "handleStartTimer"
  /\ AskNextList(0)
  /\ UNCHANGED <<envVars, resolveVars, fmtVars, world, params, sumLocals, console, timer>>

\* The tasks of a list arrive in findTaskIDByName.
FindTasksReturn ==
  /\ pc = "tasks"
  /\ params.handler = "handleStartTimer"
  /\ LET tasks == TasksOfList(world.tasks, listId)
         i == FindTask(tasks, params.taskName)
     IN  IF i # 0
         THEN /\ AskCurrentTimer(tasks[i].id)
              /\ UNCHANGED <<walk, listId>>
         ELSE AskNextList(walk)
  /\ UNCHANGED <<envVars, resolveVars, fmtVars, world, params, sumLocals, console, timer>>

\* A call of findTaskIDByName throws: its catch logs the error and returns
\* undefined.
FindFails ==
  /\ pc \in {"hierarchy", "tasks"}
  /\ params.handler = "handleStartTimer"
  /\ console' = Append(console, "Error finding task by name: " \o UpstreamMessage(pc))
  /\ ThrowNotFound
  /\ UNCHANGED <<envVars, resolveVars, fmtVars, world, params, sumLocals, timer, listId, walk>>

\* The current timer arrives.
CurrentTimerReturns_noCheck ==
  /\ pc = "current"
  /\ params.handler = "handleStartTimer"
  /\ pc' = "starting"
  /\ calls' = Append(calls, [op |-> "startTimer", taskId |-> taskIdToUse])
  /\ UNCHANGED result
  /\ UNCHANGED <<envVars, resolveVars, fmtVars, world, params, sumLocals, timerVars>>

CurrentTimerReturns ==
  /\ pc = "current"
  /\ params.handler = "handleStartTimer"
  /\ IF timer # Null
     THEN /\ pc' = "done"
          /\ result' = NotStarted(timer)
          /\ UNCHANGED calls
     ELSE /\ pc' = "starting"
          /\ calls' = Append(calls, [op |-> "startTimer", taskId |-> taskIdToUse])
          /\ UNCHANGED result
  /\ UNCHANGED <<envVars, resolveVars, fmtVars, world, params, sumLocals, timerVars>>

\* The service has started the timer and answers its time entry.
StartTimerReturns ==
  /\ pc = "starting"
  /\ params.handler = "handleStartTimer"
  /\ timer' = TimerEntry("e1", taskIdToUse, "")
  /\ pc' = "done"
  /\ result' = Started(timer')
  /\ UNCHANGED <<envVars, resolveVars, fmtVars, world, params, sumLocals, console, calls,
                 taskIdToUse, listId, walk>>

\* A call inside the try block throws.
StartTimerFails ==
  /\ pc \in {"current", "starting"}
  /\ params.handler = "handleStartTimer"
  /\ pc' = "done"
  /\ result' = StartError(UpstreamMessage(pc))
  /\ UNCHANGED <<envVars, resolveVars, fmtVars, world, params, sumLocals, calls, timerVars>>

\* The handler of the start_timer tool object.  It asks for the tasks of
\* listId || '' and then starts the timer.
ToolAskTasks(id) ==
  /\ listId' = id
  /\ calls' = Append(calls, [op |-> "getTasks", listId |-> id])
  /\ pc' = "tasks"
  /\ UNCHANGED <<taskIdToUse, result>>

ToolStartTimerCall(id) ==
  /\ taskIdToUse' = id
  /\ calls' = Append(calls, [op |-> "startTimer", taskId |-> id])
  /\ pc' = "starting"
  /\ UNCHANGED result

ToolReturnsError(message) ==
  /\ pc' = "done"
  /\ result' = ToolError(message)
  /\ UNCHANGED <<taskIdToUse, calls>>

ToolTaskNotFound(p) ==
  "Task \"" \o p.taskName \o "\" not found"
    \o (IF Missing(p.listName) THEN "" ELSE " in list \"" \o p.listName \o "\"")

\* startTimerTool.handler is called.
ToolStartTimer ==
  /\ pc = "start"
  /\ params.handler = "startTimerTool"
  /\ IF Missing(params.taskId) /\ ~Missing(params.taskName)
     THEN IF ~Missing(params.listName)
          THEN /\ calls' = Append(calls, [op |-> "getWorkspaceHierarchy"])
               /\ pc' = "hierarchy"
               /\ UNCHANGED <<taskIdToUse, listId, result>>
          ELSE ToolAskTasks("")
     ELSE /\ IF Missing(params.taskId)
             THEN ToolReturnsError("Either taskId or taskName must be provided")
             ELSE ToolStartTimerCall(params.taskId)
          /\ UNCHANGED listId
  /\ UNCHANGED <<envVars, resolveVars, fmtVars, world, params, sumLocals, console, timer, walk>>

\* The hierarchy arrives: the list of the given name is looked up in it.
ToolHierarchyReturns_noListCheck ==
  /\ pc = "hierarchy"
  /\ params.handler = "startTimerTool"
  /\ LET listInfo == findIDByNameInHierarchy(world.hierarchy, params.listName, "list")
     IN  IF listInfo = Undefined THEN ToolAskTasks("") ELSE ToolAskTasks(listInfo.id)
  /\ UNCHANGED <<envVars, resolveVars, fmtVars, world, params, sumLocals, console, timer, walk>>

ToolHierarchyReturns ==
  /\ pc = "hierarchy"
  /\ params.handler = "startTimerTool"
  /\ LET listInfo == findIDByNameInHierarchy(world.hierarchy, params.listName, "list")
     IN  IF listInfo = Undefined
         THEN /\ ToolReturnsError("List \"" \o params.listName \o "\" not found")
              /\ UNCHANGED listId
         ELSE ToolAskTasks(listInfo.id)
  /\ UNCHANGED <<envVars, resolveVars, fmtVars, world, params, sumLocals, console, timer, walk>>

\* The tasks arrive: the task of the given name is looked up among them.
ToolTasksReturn ==
  /\ pc = "tasks"
  /\ params.handler = "startTimerTool"
  /\ LET tasks == TasksOfList(world.tasks, listId)
         i == FindTask(tasks, params.taskName)
     IN  IF i = 0
         THEN ToolReturnsError(ToolTaskNotFound(params))
         ELSE ToolStartTimerCall(tasks[i].id)
  /\ UNCHANGED <<envVars, resolveVars, fmtVars, world, params, sumLocals, console, timer,
                 listId, walk>>

\* The service has started the timer and answers it.
ToolStartTimerReturns ==
  /\ pc = "starting"
  /\ params.handler = "startTimerTool"
  /\ timer' = TimerEntry("e1", taskIdToUse, "")
  /\ pc' = "done"
  /\ result' = ToolStarted(taskIdToUse, timer')
  /\ UNCHANGED <<envVars, resolveVars, fmtVars, world, params, sumLocals, console, calls,
                 taskIdToUse, listId, walk>>

\* A call throws: the handler's catch returns the error's message.
ToolCallFails ==
  /\ pc \in {"hierarchy", "tasks", "starting"}
  /\ params.handler = "startTimerTool"
  /\ pc' = "done"
  /\ result' = ToolError(UpstreamMessage(pc))
  /\ UNCHANGED <<envVars, resolveVars, fmtVars, world, params, sumLocals, calls, timerVars>>

NextTimer == \/ HandleStartTimer
             \/ FindHierarchyReturns
             \/ FindTasksReturn
             \/ FindFails
             \/ CurrentTimerReturns
             \/ StartTimerReturns
             \/ StartTimerFails
             \/ ToolStartTimer
             \/ ToolHierarchyReturns
             \/ ToolTasksReturn
             \/ ToolStartTimerReturns
             \/ ToolCallFails

SpecTimer == InitTimer /\ [][NextTimer]_vars

(***************************************************************************)
(* Properties of the resolvers.                                            *)
(***************************************************************************)
\* The resolver of the last call, applied to period p at the same instant,
\* and the two bounds of a returned range as instants.
SameResolver(p) ==
  IF resolved.kind = "tool" THEN getDateRangeForPeriod(p) ELSE getDateRangeForPeriodStr(p)
AsInstant(v) == IF "kind" \in DOMAIN v THEN ParseInt(v) ELSE v
StartOf(r) == AsInstant(r.start_date)
EndOf(r) == AsInstant(r.end_date)

Resolved(p) == resolved # None /\ resolved.period = p /\ resolved.range.kind = "range"

\* C3: in every resolver, the range of 'yesterday' ends exactly one
\* millisecond before the range of 'today' starts.
C3_YesterdayEndsBeforeToday ==
  Resolved("yesterday") =>
    EndOf(resolved.range) = TimeMinus1(StartOf(SameResolver("today")))

\* C9: for every period token other than 'custom', in both resolvers, the
\* resolved range has start <= end.
C9_StartNotAfterEnd ==
  \A p \in NamedPeriods :
    Resolved(p) => TimeLE(StartOf(resolved.range), EndOf(resolved.range))

C9_Witness ==
  /\ Resolved("last_month")
  /\ resolved.kind = "tool"
  /\ GetMonth(now) = 0
  /\ GetFullYear(StartOf(resolved.range)) = 2023

\* No change of the zone's offset on the days first..last.
NoClockChange(first, last) == \A d \in first..last : DayLen(d) = DayMs

\* C10 as stated: 'last_week' runs from local midnight of a Sunday to
\* 23:59:59.999 of the following Saturday, is exactly 7 days minus 1
\* millisecond long, and lies before the start of 'this_week'.
C10_LastWeekIsSevenDays ==
  Resolved("last_week") =>
    LET s == StartOf(resolved.range)
        e == EndOf(resolved.range)
    IN  /\ GetDay(s) = 0 /\ ToWall(s) = 0
        /\ GetDay(e) = 6 /\ ToWall(e) = DayMs - 1
        /\ e.day = s.day + 6
        /\ TimeDiff(e, s) = 7 * DayMs - 1
        /\ TimeLT(e, StartOf(SameResolver("this_week")))

\* C10 amended: the same, the length being 7 days minus 1 millisecond when
\* the zone's offset does not change within that week, and otherwise the
\* length of those seven local days minus 1 millisecond.
C10_LastWeekIsSevenLocalDays ==
  Resolved("last_week") =>
    LET s == StartOf(resolved.range)
        e == EndOf(resolved.range)
    IN  /\ GetDay(s) = 0 /\ ToWall(s) = 0
        /\ GetDay(e) = 6 /\ ToWall(e) = DayMs - 1
        /\ e.day = s.day + 6
        /\ NoClockChange(s.day, e.day) => TimeDiff(e, s) = 7 * DayMs - 1
        /\ TimeDiff(e, s) = DaysLen(s.day, s.day + 7) - 1
        /\ TimeLT(e, StartOf(SameResolver("this_week")))

C10_Witness ==
  /\ Resolved("last_week")
  /\ resolved.kind = "summary"
  /\ GetMonth(now) = 2 /\ GetDate(now) = 2
  /\ GetMonth(StartOf(resolved.range)) = 1
  /\ TimeDiff(EndOf(resolved.range), StartOf(resolved.range)) = 7 * DayMs - 1

(***************************************************************************)
(* Properties of the formatter.                                            *)
(***************************************************************************)
\* Whether string s holds string part.
Contains(s, part) ==
  \E i \in 1..(Len(s) - Len(part) + 1) : SubSeq(s, i, i + Len(part) - 1) = part

Formatted == fmtText # NotFormatted

FmtDays == fmtMs \div DayMs
FmtHours == (fmtMs \div HourMs) % 24
FmtMinutes == (fmtMs \div MinuteMs) % 60

\* C8 as stated: the formatter renders each non-zero higher unit together
\* with the unit directly below it and is never empty: format(0) = "0m",
\* format(90000) = "1m", format(3600000) = "1h 0m", and format(90000000)
\* has a day component.
C8_UnitWithTheUnitBelow ==
  Formatted =>
    /\ fmtText # ""
    /\ fmtMs = 0 => fmtText = "0m"
    /\ fmtMs = 90000 => fmtText = "1m"
    /\ fmtMs = 3600000 => fmtText = "1h 0m"
    /\ fmtMs = 90000000 => Contains(fmtText, "1d ")
    /\ FmtDays > 0 => Contains(fmtText, ToString(FmtHours) \o "h")
    /\ FmtHours > 0 => Contains(fmtText, ToString(FmtMinutes) \o "m")

\* C8 amended: the formatter is never empty; it renders the days when they
\* are not zero, the hours when the hours or the days are not zero, and the
\* minutes when they are not zero or when nothing else is rendered:
\* format(0) = "0m", format(90000) = "1m", format(3600000) = "1h", and
\* format(90000000) has a day component.
C8_MinutesOnlyWhenNeeded ==
  Formatted =>
    /\ fmtText # ""
    /\ fmtMs = 0 => fmtText = "0m"
    /\ fmtMs = 90000 => fmtText = "1m"
    /\ fmtMs = 3600000 => fmtText = "1h"
    /\ fmtMs = 90000000 => fmtText = "1d 1h"
    /\ Contains(fmtText, "d") <=> FmtDays > 0
    /\ FmtDays > 0 => Contains(fmtText, ToString(FmtDays) \o "d " \o ToString(FmtHours) \o "h")
    /\ Contains(fmtText, "h") <=> (FmtHours > 0 \/ FmtDays > 0)
    /\ FmtHours > 0 => Contains(fmtText, ToString(FmtHours) \o "h")
    /\ Contains(fmtText, "m") <=> (FmtMinutes > 0 \/ (FmtDays = 0 /\ FmtHours = 0))
    /\ Contains(fmtText, "m") => Contains(fmtText, ToString(FmtMinutes) \o "m")
    /\ SubSeq(fmtText, Len(fmtText), Len(fmtText)) # " "

C8_Witness == fmtMs = 3600000 /\ fmtText = "1h"

(***************************************************************************)
(* Properties of the summary.                                              *)
(***************************************************************************)
RECURSIVE SumTime(_)
\* The sum of the time fields of a sequence of records.
SumTime(arr) == IF arr = <<>> THEN 0 ELSE Head(arr).time + SumTime(Tail(arr))

RECURSIVE SumTaskTimes(_)
\* The sum of tasks[*].time over a sequence of user records.
SumTaskTimes(data) ==
  IF data = <<>> THEN 0 ELSE SumTime(Head(data).tasks) + SumTaskTimes(Tail(data))

\* The user records of the raw report the service answered.
RawData == IF HasData(world.report) THEN world.report.data ELSE <<>>

Summarised == pc = "done" /\ result.kind = "summary"
Failed == pc = "done" /\ result.kind = "error"

C2_PercentageOfZeroIsZero ==
  Summarised =>
    \A g \in DOMAIN result.summary :
      /\ result.totalTime = 0 => result.summary[g].percentage = Number(0)
      /\ result.summary[g].time = 0 =>
           \A t \in DOMAIN result.summary[g].tasks :
             result.summary[g].tasks[t].percentage = Number(0)

\* C4: a request whose period is none of the tokens issues no report fetch
\* and ends with an error, never with the summary of a default range.
C4_UnknownPeriodFails ==
  params.period \notin NamedPeriods \cup {"custom"} =>
    /\ calls = <<>>
    /\ pc = "done" => result.kind = "error"

\* C5: a summary request with period 'custom' and a missing start_date or
\* end_date ends with an error result without any external call.
C5_CustomWithoutBoundsFails ==
  (params.period = "custom" /\ (Falsy(params.start_date) \/ Falsy(params.end_date))) =>
    /\ calls = <<>>
    /\ pc \in {"start", "done"}
    /\ pc = "done" => result.kind = "error"

C5_Witness ==
  /\ Failed
  /\ params.period = "custom"
  /\ ~Falsy(params.start_date)
  /\ params.end_date = Undefined
  /\ calls = <<>>

\* C6: for groupBy=task, the group times of a summary add up to the sum of
\* tasks[*].time over all user records, also when several user records hold
\* the same task.
C6_TaskGroupsAddUp ==
  (Summarised /\ result.groupedBy = "task") =>
    SumTime(result.summary) = SumTaskTimes(RawData)

C6_Witness ==
  /\ Summarised
  /\ result.groupedBy = "task"
  /\ Len(RawData) = 2
  /\ \E g \in DOMAIN result.summary :
       result.summary[g].groupKey = "t1" /\ result.summary[g].time = 6000

\* C7: in every group of every summary, whatever the grouping, the times of
\* the group's tasks add up to the group's time.
C7_GroupTasksAddUp ==
  Summarised =>
    \A g \in DOMAIN result.summary :
      SumTime(result.summary[g].tasks) = result.summary[g].time

C7_Witness ==
  /\ Summarised
  /\ result.groupedBy = "day"
  /\ \E g \in DOMAIN result.summary :
       /\ Len(result.summary[g].tasks) = 2
       /\ result.summary[g].time = 7500
       /\ \A t \in DOMAIN result.summary[g].tasks : result.summary[g].tasks[t].time > 0

(***************************************************************************)
(* Properties of the start_timer handlers.                                 *)
(***************************************************************************)
HasCall(op) == \E i \in DOMAIN calls : calls[i].op = op
CallsOf(op) == SelectSeq(calls, LAMBDA c : c.op = op)

TimerDone == pc = "done" /\ params \in StartTimerRequests

\* C11: when the current-timer check of a start_timer request reports a
\* running timer (the step that leaves the check and is not the check's
\* failure), the handler returns a result with success false that carries the
\* running timer's task, and the request has issued no start-timer call; no
\* request that returned such a result has issued one.
C11_RunningTimerIsNotStarted ==
  /\ [][ (pc = "current" /\ pc' # "current" /\ timer # Null /\ result'.kind # "text")
           => /\ pc' = "done"
              /\ result'.kind = "json"
              /\ result'.success = FALSE
              /\ result'.currentTimer.taskId = timer.task.id
              /\ result'.currentTimer.taskName = timer.task.name
              /\ ~\E i \in DOMAIN calls' : calls'[i].op = "startTimer" ]_vars
  /\ [](TimerDone /\ params.handler = "handleStartTimer" /\ result.kind = "json"
          /\ ~result.success => ~HasCall("startTimer"))

C11_Witness ==
  /\ TimerDone
  /\ params.handler = "handleStartTimer"
  /\ params.taskName = "fix bug"
  /\ HasCall("getCurrentTimer")
  /\ result.kind = "json"
  /\ ~result.success
  /\ result.currentTimer.taskId = "t3"


\* Where the lists stand in the tree: the place of the list's space among
\* the spaces, the place of its folder among the children of the space (0 for
\* a list directly in the space), and its own place among the children of its
\* parent.
ListPlaces(hierarchy) ==
  UNION { UNION { IF hierarchy[s].children[c].type = "list"
                  THEN { [id |-> hierarchy[s].children[c].id,
                          space |-> s, folder |-> 0, child |-> c] }
                  ELSE { [id |-> hierarchy[s].children[c].children[k].id,
                          space |-> s, folder |-> c, child |-> k] :
                           k \in { j \in DOMAIN hierarchy[s].children[c].children :
                                     hierarchy[s].children[c].children[j].type = "list" } } :
                  c \in DOMAIN hierarchy[s].children } :
          s \in DOMAIN hierarchy }

\* List a is visited before list b: an earlier space; in one space, a list
\* directly in the space before every list of a folder, and otherwise by the
\* places of the folders and of the lists.
VisitedBefore(a, b) ==
  \/ a.space < b.space
  \/ /\ a.space = b.space
     /\ \/ a.folder = 0 /\ b.folder # 0
        \/ a.folder = 0 /\ b.folder = 0 /\ a.child < b.child
        \/ a.folder # 0 /\ b.folder # 0 /\ a.folder < b.folder
        \/ a.folder # 0 /\ a.folder = b.folder /\ a.child < b.child

\* The list has a task of the queried name, and the first such task.
HasTaskNamed(id, query) ==
  \E i \in DOMAIN world.tasks[id] : toLowerCase(world.tasks[id][i].name) = toLowerCase(query)

FirstTaskNamed(id, query) ==
  LET tasks == world.tasks[id]
      i == CHOOSE j \in DOMAIN tasks :
             /\ toLowerCase(tasks[j].name) = toLowerCase(query)
             /\ \A k \in 1..(j - 1) : toLowerCase(tasks[k].name) # toLowerCase(query)
  IN  tasks[i].id

\* The request resolves a task name over the whole tree, and none of its
\* calls has failed there.
ResolvesByWalk ==
  /\ params \in StartTimerRequests
  /\ params.handler = "handleStartTimer"
  /\ Missing(params.taskId)
  /\ ~Missing(params.taskName)

WalkOver == ResolvesByWalk /\ pc \notin {"start", "hierarchy", "tasks"}

\* C12: when findTaskIDByName resolves a name and no fetch has failed, and
\* lists of the tree hold tasks of that name, the id it returns is that of the
\* first such task of the one list among them that is visited before all the
\* others; the request is not rejected.
C12_FirstMatchInTraversalOrder ==
  (WalkOver /\ console = <<>>) =>
    \A a \in ListPlaces(world.hierarchy) :
      ( /\ HasTaskNamed(a.id, params.taskName)
        /\ \A b \in ListPlaces(world.hierarchy) :
             (b # a /\ HasTaskNamed(b.id, params.taskName)) => VisitedBefore(a, b) )
        => /\ taskIdToUse = FirstTaskNamed(a.id, params.taskName)
           /\ result.kind # "rejected"

\* Two lists hold a task of the name, the list of the later space is
\* directly in its space and the other is in a folder of the first space;
\* the timer is started for the task of the folder's list.
C12_Witness ==
  /\ WalkOver /\ console = <<>>
  /\ world.hierarchy = <<ProductSpace(<<SprintFolder, ListNode("l1", "Backlog")>>), OpsSpace>>
  /\ world.tasks["l2"] = <<TaskPool[1], TaskPool[3]>>
  /\ world.tasks["l3"] = <<TaskPool[2]>>
  /\ taskIdToUse = "t2"
  /\ pc = "done"
  /\ result.kind = "json"
  /\ result.success


\* Two strings of one length whose characters are the same or the two cases
\* of one letter.
SameButForCase(a, b) ==
  /\ Len(a) = Len(b)
  /\ \A i \in 1..Len(a) :
       \/ SubSeq(a, i, i) = SubSeq(b, i, i)
       \/ \E k \in 1..Len(Upper) :
            {SubSeq(a, i, i), SubSeq(b, i, i)} = {SubSeq(Upper, k, k), SubSeq(Lower, k, k)}

\* The tasks the name resolution is waiting for, and the step in which they
\* arrive (the step in which the call fails writes to the console or returns
\* the call's error).
AwaitedTasks == TasksOfList(world.tasks, listId)

TasksArrive ==
  /\ pc = "tasks"
  /\ console' = console
  /\ ~(pc' = "done" /\ result'.kind = "json" /\ params.handler = "startTimerTool"
         /\ result'.message = UpstreamMessage("tasks"))

\* C13: the task a listing resolves the name to is a task of the listing
\* whose name is the queried name but for the case of its letters, and a
\* listing with such a task resolves the name: "Fix Bug" is found by
\* "fix bug", "Fix Bugs" is not, and "Fix" finds neither.
C13_CaseInsensitiveExactMatch ==
  /\ [][ (pc = "tasks" /\ taskIdToUse' # taskIdToUse)
           => \E i \in DOMAIN AwaitedTasks :
                /\ AwaitedTasks[i].id = taskIdToUse'
                /\ SameButForCase(AwaitedTasks[i].name, params.taskName) ]_vars
  /\ [][ (TasksArrive /\ \E i \in DOMAIN AwaitedTasks :
                           SameButForCase(AwaitedTasks[i].name, params.taskName))
           => taskIdToUse' # Absent ]_vars
  /\ [](pc \in {"tasks", "current", "starting"} /\ params \in StartTimerRequests
          /\ params.taskName = "Fix" => taskIdToUse = params.taskId)

C13_Witness ==
  /\ TimerDone
  /\ params.taskName = "fix bug"
  /\ Len(AwaitedTasks) = 2
  /\ AwaitedTasks[1].name = "Fix Bugs"
  /\ AwaitedTasks[2].name = "Fix Bug"
  /\ taskIdToUse = AwaitedTasks[2].id
  /\ HasCall("startTimer")


\* The ids of the lists of the tree that have the name, but for the case.
ListsNamed(hierarchy, name) ==
  { n.id : n \in { m \in { NodesDepthFirst(hierarchy)[i] : i \in DOMAIN NodesDepthFirst(hierarchy) } :
                     m.type = "list" /\ SameButForCase(m.name, name) } }

\* The tool's handler resolves a task name within a named list, and has
\* returned without the failure of a call.
ScopedByList ==
  /\ params \in StartTimerRequests
  /\ params.handler = "startTimerTool"
  /\ Missing(params.taskId)
  /\ ~Missing(params.taskName)
  /\ ~Missing(params.listName)

ScopedDone ==
  /\ ScopedByList
  /\ pc = "done"
  /\ \/ result.status = "Timer started"
     \/ result.message \notin {UpstreamMessage(at) : at \in {"hierarchy", "tasks", "starting"}}

\* C14: a task name resolved within a named list.  Without a list of that
\* name the result is the error that the list is not found, and neither the
\* tasks of a list nor the start of the timer has been asked for.  Otherwise
\* the tasks of one list, a list of that name, are asked for and no others;
\* without a task of the name among them the result is the error that the
\* task is not found and the timer is not started, with one the timer is
\* started for a task of that list.
C14_ListScopedResolution ==
  /\ ScopedByList => \A i \in DOMAIN calls :
                       calls[i].op = "getTasks"
                         => calls[i].listId \in ListsNamed(world.hierarchy, params.listName)
  /\ ScopedDone =>
       IF ListsNamed(world.hierarchy, params.listName) = {}
       THEN /\ result = ToolError("List \"" \o params.listName \o "\" not found")
            /\ ~HasCall("getTasks")
            /\ ~HasCall("startTimer")
       ELSE /\ Len(CallsOf("getTasks")) = 1
            /\ IF HasTaskNamed(CallsOf("getTasks")[1].listId, params.taskName)
               THEN /\ result.status = "Timer started"
                    /\ Len(CallsOf("startTimer")) = 1
                    /\ \E i \in DOMAIN AwaitedTasks : AwaitedTasks[i].id = result.task_id
               ELSE /\ result = ToolError("Task \"" \o params.taskName
                                            \o "\" not found in list \""
                                            \o params.listName \o "\"")
                    /\ ~HasCall("startTimer")

\* Two lists of the name; the task is in the second one only and is not
\* found, the tasks of the first one alone having been asked for.
C14_Witness ==
  /\ ScopedDone
  /\ params.listName = "backlog"
  /\ params.taskName = "fix bug"
  /\ CallsOf("getTasks") = <<[op |-> "getTasks", listId |-> "l1"]>>
  /\ HasTaskNamed("l3", params.taskName)
  /\ result.status = "Error"


\* A request that resolves a task name without the name of a list, returned
\* without the failure of a call.
UnscopedDone ==
  /\ params \in StartTimerRequests
  /\ Missing(params.taskId)
  /\ ~Missing(params.taskName)
  /\ Missing(params.listName)
  /\ pc = "done"
  /\ console = <<>>
  /\ result.kind = "json"
  /\ params.handler = "startTimerTool" =>
       \/ result.status = "Timer started"
       \/ result.message \notin {UpstreamMessage(at) : at \in {"hierarchy", "tasks", "starting"}}

\* C15: a task name resolved without the name of a list is searched for in
\* every list of the tree, those directly in a space and those in folders:
\* when a list holds a task of the name, the request resolves to a task of
\* that name, in the handler of either start_timer.
C15_EveryListIsSearched ==
  UnscopedDone =>
    \A a \in ListPlaces(world.hierarchy) :
      HasTaskNamed(a.id, params.taskName)
        => \E b \in ListPlaces(world.hierarchy) :
             /\ HasTaskNamed(b.id, params.taskName)
             /\ \E i \in DOMAIN world.tasks[b.id] : world.tasks[b.id][i].id = taskIdToUse


\* The text of a result: the message of an error or of a JSON result, the
\* text of a plain one.
ResultText(res) ==
  IF "message" \in DOMAIN res THEN res.message
  ELSE IF "text" \in DOMAIN res THEN res.text
  ELSE ""

\* C16: when the fetch of the hierarchy or of the tasks of a list fails while
\* a task name is resolved, the request ends with an error whose text
\* carries the message of the failure, and is not told that the task was not
\* found.
C16_FetchFailureIsUpstreamError ==
  [][ ((FindFails \/ ToolCallFails) /\ pc \in {"hierarchy", "tasks"})
        => /\ pc' = "done"
           /\ Contains(ResultText(result'), UpstreamMessage(pc))
           /\ ~Contains(ResultText(result'), "not found") ]_vars


(***************************************************************************)
(* Properties of the summary: its order, its fetches, its percentages.     *)
(***************************************************************************)
NonIncreasing(arr) == \A i \in 1..(Len(arr) - 1) : arr[i].time >= arr[i + 1].time

\* C17: in every summary the groups stand in non-increasing order of their
\* times, and in every group the tasks stand in non-increasing order of
\* theirs.
C17_SortedByTimeDescending ==
  Summarised =>
    /\ NonIncreasing(result.summary)
    /\ \A g \in DOMAIN result.summary : NonIncreasing(result.summary[g].tasks)

\* Two groups and two tasks of a group that were entered with the smaller
\* time first.
C17_Witness ==
  /\ Summarised
  /\ Len(summaryItems) = 2
  /\ summaryItems[1].time < summaryItems[2].time
  /\ result.summary[1].groupKey = summaryItems[2].key
  /\ \E g \in DOMAIN summaryItems :
       /\ Len(summaryItems[g].tasks) = 2
       /\ summaryItems[g].tasks[1].time < summaryItems[g].tasks[2].time


\* The ids of the tasks of a report, and the getTask calls issued for an id.
ReportTaskIds(data) ==
  UNION { { data[u].tasks[t].id : t \in DOMAIN data[u].tasks } : u \in DOMAIN data }

GetTaskCalls(id) == SelectSeq(calls, LAMBDA c : c.op = "getTask" /\ c.taskId = id)

\* C18: a summary grouped by list or by space has asked for the detail of
\* every task id of the report exactly once, in however many user records the
\* task stands.
C18_OneDetailFetchPerTask ==
  (Summarised /\ result.groupedBy \in {"list", "space"}) =>
    \A id \in ReportTaskIds(RawData) : Len(GetTaskCalls(id)) = 1


\* The orders of a sequence, and the reports that hold the user records of
\* a report, and the tasks of each, in another order.
Orders(seq) ==
  { [i \in DOMAIN seq |-> seq[f[i]]] :
      f \in { g \in [DOMAIN seq -> DOMAIN seq] : \A i, j \in DOMAIN seq : i # j => g[i] # g[j] } }

RECURSIVE TaskOrders(_)
TaskOrders(data) ==
  IF data = <<>> THEN {<<>>}
  ELSE { <<[Head(data) EXCEPT !.tasks = ts]>> \o rest :
           ts \in Orders(Head(data).tasks), rest \in TaskOrders(Tail(data)) }

Reorderings(rep) ==
  IF HasData(rep)
  THEN { [rep EXCEPT !.data = d] : d \in UNION { TaskOrders(o) : o \in Orders(rep.data) } }
  ELSE {rep}

\* The groups of a summary with their times and percentages and, of each
\* task, its time and percentage; and the times in the order of the summary.
GroupsOf(res) ==
  { [groupKey |-> res.summary[g].groupKey,
     time |-> res.summary[g].time,
     percentage |-> res.summary[g].percentage,
     tasks |-> { [id |-> res.summary[g].tasks[t].id,
                  time |-> res.summary[g].tasks[t].time,
                  percentage |-> res.summary[g].tasks[t].percentage] :
                   t \in DOMAIN res.summary[g].tasks }] :
      g \in DOMAIN res.summary }

TimesOf(res) == [g \in DOMAIN res.summary |-> res.summary[g].time]

\* C19: the handler, given the same answers with the user records and the
\* tasks of each in any other order, returns the same total and the same
\* groups, with the same times, percentages and tasks, and the same sequence
\* of group times.
C19_OrderOfProcessingIsImmaterial ==
  Summarised =>
    \A rep \in Reorderings(world.report) :
      LET other == SummaryOf(params, [world EXCEPT !.report = rep])
      IN  /\ other.totalTime = result.totalTime
          /\ GroupsOf(other) = GroupsOf(result)
          /\ TimesOf(other) = TimesOf(result)

\* Two user records that differ, one of them with two tasks, and two groups.
C19_Witness ==
  /\ Summarised
  /\ Len(RawData) = 2
  /\ RawData[1].time # RawData[2].time
  /\ Len(RawData[1].tasks) = 2
  /\ RawData[1].tasks[1].time # RawData[1].tasks[2].time
  /\ Len(result.summary) = 2
  /\ Cardinality(Reorderings(world.report)) = 4


\* A percentage as the summary holds it: an integer from 0 to 100.
InRange(p) == p.kind = "number" /\ p.value \in 0..100

\* C20: every percentage of every summary, a group's share of the total and
\* a task's share of its group, is an integer from 0 to 100, also when the
\* time of a user record is not the sum of the times of its tasks.
C20_PercentagesInRange ==
  Summarised =>
    \A g \in DOMAIN result.summary :
      /\ InRange(result.summary[g].percentage)
      /\ \A t \in DOMAIN result.summary[g].tasks :
           InRange(result.summary[g].tasks[t].percentage)


(***************************************************************************)
(* Properties of the grouping by day.                                      *)
(***************************************************************************)
\* How many times the report holds task id: once for every user record with
\* the task, and so how many times its time entries are fetched.
RECURSIVE Occurrences(_, _)
Occurrences(data, id) ==
  IF data = <<>> THEN 0
  ELSE Cardinality({t \in DOMAIN Head(data).tasks : Head(data).tasks[t].id = id})
         + Occurrences(Tail(data), id)

\* The two days of the time entries explored and the keys of their buckets,
\* and the milliseconds of an entry: those its duration spells, 0 without one.
BucketKeys == {"2024-1-8", "2024-1-9"}

BucketOfEntry(e) ==
  IF ParseInt(e.start).day = DayIndex(2024, 0, 8) THEN "2024-1-8" ELSE "2024-1-9"

MillisOfEntry(e) ==
  CASE e.duration = "1000" -> 1000
    [] e.duration = "2500" -> 2500
    [] OTHER -> 0

RECURSIVE SumInBucket(_, _)
SumInBucket(es, key) ==
  IF es = <<>> THEN 0
  ELSE (IF BucketOfEntry(Head(es)) = key THEN MillisOfEntry(Head(es)) ELSE 0)
         + SumInBucket(Tail(es), key)

HasInBucket(es, key) == \E i \in DOMAIN es : BucketOfEntry(es[i]) = key

\* What the fetched entries of task id add to the bucket of a day.
FetchedInBucket(id, key) == Occurrences(RawData, id) * SumInBucket(world.entries[id], key)

GroupsKeyed(key) == {g \in DOMAIN result.summary : result.summary[g].groupKey = key}
TasksKeyed(group, id) == {t \in DOMAIN group.tasks : group.tasks[t].id = id}

DaySummarised == Summarised /\ result.groupedBy = "day"

\* C21: in a summary grouped by day the buckets are those of the local days
\* on which fetched entries start, one bucket for a day; the time of a bucket
\* is the sum of the durations of the fetched entries that start on its day,
\* and its sub-total of a task the sum of those of the task's entries; an
\* entry without a duration adds 0.
C21_EntriesBucketedByLocalDay ==
  DaySummarised =>
    /\ \A g \in DOMAIN result.summary : result.summary[g].groupKey \in BucketKeys
    /\ \A key \in BucketKeys :
         IF \E id \in TaskIds : Occurrences(RawData, id) > 0 /\ HasInBucket(world.entries[id], key)
         THEN /\ Cardinality(GroupsKeyed(key)) = 1
              /\ \A g \in GroupsKeyed(key) :
                   /\ result.summary[g].time
                        = FetchedInBucket("t1", key) + FetchedInBucket("t2", key)
                   /\ \A id \in TaskIds :
                        IF Occurrences(RawData, id) > 0 /\ HasInBucket(world.entries[id], key)
                        THEN /\ Cardinality(TasksKeyed(result.summary[g], id)) = 1
                             /\ \A t \in TasksKeyed(result.summary[g], id) :
                                  result.summary[g].tasks[t].time = FetchedInBucket(id, key)
                        ELSE TasksKeyed(result.summary[g], id) = {}
         ELSE GroupsKeyed(key) = {}

\* Task t1 with an entry of 1000 and one without a duration on the first day,
\* task t2 with an entry of 2500 on the second: buckets of 1000 and of 2500.
C21_Witness ==
  /\ DaySummarised
  /\ Len(world.entries["t1"]) = 2
  /\ \A i \in DOMAIN world.entries["t1"] : BucketOfEntry(world.entries["t1"][i]) = "2024-1-8"
  /\ Len(world.entries["t2"]) = 1
  /\ Occurrences(RawData, "t1") = 1
  /\ Occurrences(RawData, "t2") = 1
  /\ \E g \in GroupsKeyed("2024-1-8") : result.summary[g].time = 1000
  /\ \E g \in GroupsKeyed("2024-1-9") : result.summary[g].time = 2500

(***************************************************************************)
(* Failures of the external calls of a summary request.                    *)
(***************************************************************************)
Awaiting == pc \in {"report", "task", "entries"}

\* C22: when the call a summary request is waiting for fails, the request
\* ends in that step with the error result that carries the failure's
\* message and issues no call in it; a request that has ended issues no call
\* and stays ended.
C22_FailureEndsTheRequest ==
  [][ /\ (Awaiting /\ pc' = "done" /\ result'.kind = "error")
         => /\ calls' = calls
            /\ result'.text = "Error getting time tracking summary: " \o FailureMessage(pc)
      /\ pc = "done" => (calls' = calls /\ pc' = "done" /\ result' = result) ]_vars

\* The fetch of the time entries of the second task fails: four calls were
\* made before it, and none after it.
C22_Witness ==
  /\ Failed
  /\ result.text = "Error getting time tracking summary: Failed to get time entries: Network Error"
  /\ Len(calls) = 5
  /\ calls[5].op = "getTimeEntries"
  /\ pos = <<1, 2>>


(***************************************************************************)
(* The worked example of the grouping by task.                             *)
(***************************************************************************)
ExampleByTask ==
  /\ Summarised
  /\ world.report = ExampleReport
  /\ result.groupedBy = "task"

\* C23: for the report of one user record with time 5000 and the tasks t1 'A'
\* of 3000 and t2 'B' of 2000, grouped by task, the summary holds exactly two
\* groups: A with 3000 and 60 percent, then B with 2000 and 40 percent.
C23_ExampleGroupedByTask ==
  ExampleByTask =>
    /\ Len(result.summary) = 2
    /\ result.summary[1].groupName = "A"
    /\ result.summary[1].time = 3000
    /\ result.summary[1].percentage = Number(60)
    /\ result.summary[2].groupName = "B"
    /\ result.summary[2].time = 2000
    /\ result.summary[2].percentage = Number(40)

\* The example was summarised, after the details of both tasks were fetched.
C23_Witness ==
  /\ ExampleByTask
  /\ result.totalTime = 5000
  /\ Len(calls) = 3
  /\ result.summary[1].groupKey = "t1"


RECURSIVE SumDurations(_)
SumDurations(es) ==
  IF es = <<>> THEN 0 ELSE MillisOfEntry(Head(es)) + SumDurations(Tail(es))

RECURSIVE SumGroupTimes(_)
SumGroupTimes(groups) ==
  IF groups = <<>> THEN 0 ELSE Head(groups).time + SumGroupTimes(Tail(groups))

\* The entries the service holds for the tasks of the report, each once.
EntriesOfReport(id) == IF Occurrences(RawData, id) > 0 THEN world.entries[id] ELSE <<>>

\* C25: in a summary grouped by day every time entry of the report's tasks
\* adds its duration to the day buckets exactly once, however many user
\* records hold its task: the buckets add up to the sum of the durations of
\* the entries of the distinct tasks.
C25_EachEntryCountedOnce ==
  DaySummarised =>
    SumGroupTimes(result.summary)
      = SumDurations(EntriesOfReport("t1")) + SumDurations(EntriesOfReport("t2"))


(***************************************************************************)
(* The two resolvers compared.                                             *)
(***************************************************************************)
\* The other resolver than that of the last call, applied to period p at the
\* same instant.
OtherResolver(p) ==
  IF resolved.kind = "tool" THEN getDateRangeForPeriodStr(p) ELSE getDateRangeForPeriod(p)

\* C29: for every period token and every instant the two resolvers reject the
\* same tokens and, for the others, return the same start and the same end.
C29_ResolversAgree ==
  resolved # None =>
    LET other == OtherResolver(resolved.period)
    IN  /\ other.kind = resolved.range.kind
        /\ resolved.range.kind = "range" =>
             /\ StartOf(other) = StartOf(resolved.range)
             /\ EndOf(other) = EndOf(resolved.range)


(***************************************************************************)
(* The flat task report of get_time_tracking_report, of get_time_tracking  *)
(* with format 'summary' and of the report resource: SpecReport.           *)
(***************************************************************************)
\* The loops over the user records and their tasks: the total grows by a
\* record's time before the rows of its tasks are pushed, and a row's
\* percentage is taken against the total as it stands then.  fmt is the
\* handler's formatDuration.
RECURSIVE PushTasks(_, _, _, _)
PushTasks(tasks, total, rows, fmt) ==
  IF tasks = <<>> THEN rows
  ELSE PushTasks(Tail(tasks), total,
                 Append(rows, [taskId |-> Head(tasks).id,
                               taskName |-> Head(tasks).name,
                               time |-> Head(tasks).time,
                               timeFormatted |-> IF fmt = "hms"
                                                 THEN formatDurationHMS(Head(tasks).time)
                                                 ELSE formatDuration(Head(tasks).time),
                               percentage |-> Percentage(Head(tasks).time, total)]),
                 fmt)

RECURSIVE TaskSummaries(_, _, _, _)
TaskSummaries(data, total, rows, fmt) ==
  IF data = <<>> THEN [totalTime |-> total, taskSummaries |-> SortByTimeDesc(rows)]
  ELSE TaskSummaries(Tail(data), total + Head(data).time,
                     PushTasks(Head(data).tasks, total + Head(data).time, rows, fmt), fmt)

\* A row as JSON.stringify writes it.
JsonRows(rows) ==
  [i \in DOMAIN rows |-> [rows[i] EXCEPT !.percentage = JsonNumber(rows[i].percentage)]]

PeriodName(period) ==
  CASE period = "today" -> "Today"
    [] period = "yesterday" -> "Yesterday"
    [] period = "this_week" -> "This Week"
    [] period = "last_week" -> "Last Week"
    [] period = "this_month" -> "This Month"
    [] period = "last_month" -> "Last Month"
    [] OTHER -> "Custom Period"

\* The results: the JSON text of the tool (its date_range left out), the JSON
\* text of get_time_tracking (no date was given, its dateRange is empty), the
\* markdown of the resource (its line of the period left out) with one table
\* row for a task, an error text, and an error thrown to the caller.
ToolReport(period, total, rows) ==
  [kind |-> "json", period |-> period, total_time |-> formatDuration(total),
   tasks |-> JsonRows(rows)]

TrackingSummary(total, rows) ==
  [kind |-> "json", totalTime |-> total, totalTimeFormatted |-> formatDurationHMS(total),
   tasks |-> JsonRows(rows)]

ReportMarkdown(period, total, rows) ==
  [kind |-> "markdown", periodName |-> PeriodName(period),
   totalTimeTracked |-> formatDuration(total),
   table |-> [i \in DOMAIN rows |-> [task |-> rows[i].taskName,
                                     time |-> rows[i].timeFormatted,
                                     percentage |-> rows[i].percentage]]]

ErrorText(text) == [kind |-> "text", text |-> text]
Thrown(message) == [kind |-> "thrown", message |-> message]

\* The requests explored: the tool and the resource with a token and with a
\* string that is none, get_time_tracking with format 'summary' and no date,
\* task or list.
ReportRequests ==
  { [handler |-> h, period |-> p] :
      h \in {"getTimeTrackingReportTool", "getTimeTrackingReportAsText"},
      p \in {"this_week", "next_week"} }
    \cup { [handler |-> "handleGetTimeTracking", format |-> "summary",
            start_date |-> Undefined, end_date |-> Undefined] }

InitReport ==
  /\ tz = "fixed"
  /\ now = [day |-> DayIndex(2024, 0, 10), ms |-> 12 * HourMs]
  /\ resolved = None
  /\ FormatIdle
  /\ \E rep \in Reports : world = [report |-> rep]
  /\ params \in ReportRequests
  /\ pc = "start"
  /\ dateRange = None
  /\ report = None
  /\ pos = <<0, 0>>
  /\ task = None
  /\ totalTime = 0
  /\ summaryItems = <<>>
  /\ calls = <<>>
  /\ result = None
  /\ TimerIdle

\* What a handler does with an error: the tool lets it reach its caller, the
\* other two catch it.
ReportError(message) ==
  CASE params.handler = "getTimeTrackingReportTool" -> Thrown(message)
    [] params.handler = "handleGetTimeTracking" ->
         ErrorText("Error getting time tracking data: " \o message)
    [] params.handler = "getTimeTrackingReportAsText" ->
         ErrorText("Error generating time tracking report: " \o message)

\* The filters are settled and the report is asked for; the tool's resolver
\* throws for a string that is no token.
AskReport ==
  /\ pc = "start"
  /\ LET range == IF params.handler = "handleGetTimeTracking"
                  THEN Range(params.start_date, params.end_date)
                  ELSE getDateRangeForPeriod(params.period)
     IN  IF range.kind = "error"
         THEN /\ pc' = "done"
              /\ result' = ReportError(range.message)
              /\ UNCHANGED <<dateRange, calls>>
         ELSE /\ pc' = "report"
              /\ dateRange' = range
              /\ calls' = Append(calls, [op |-> "getTimeTrackingReport",
                                         start_date |-> range.start_date,
                                         end_date |-> range.end_date])
              /\ UNCHANGED result
  /\ UNCHANGED <<timerVars, envVars, resolveVars, fmtVars, world, params, report, pos, task,
                 totalTime, summaryItems>>

\* The report arrives: the rows are built, sorted and written.
FlatReportReturns ==
  /\ pc = "report"
  /\ pc' = "done"
  /\ report' = world.report
  /\ LET fmt == IF params.handler = "handleGetTimeTracking" THEN "hms" ELSE "dhm"
         out == IF HasData(world.report)
                THEN TaskSummaries(world.report.data, 0, <<>>, fmt)
                ELSE [totalTime |-> 0, taskSummaries |-> <<>>]
     IN  /\ totalTime' = out.totalTime
         /\ summaryItems' = out.taskSummaries
         /\ result' = CASE params.handler = "getTimeTrackingReportTool" ->
                             ToolReport(params.period, out.totalTime, out.taskSummaries)
                        [] params.handler = "handleGetTimeTracking" ->
                             TrackingSummary(out.totalTime, out.taskSummaries)
                        [] params.handler = "getTimeTrackingReportAsText" ->
                             ReportMarkdown(params.period, out.totalTime, out.taskSummaries)
  /\ UNCHANGED <<timerVars, envVars, resolveVars, fmtVars, world, params, dateRange, pos, task,
                 calls>>

\* The fetch of the report fails.
FlatReportFails ==
  /\ pc = "report"
  /\ pc' = "done"
  /\ result' = ReportError(FailureMessage("report"))
  /\ UNCHANGED <<timerVars, envVars, resolveVars, fmtVars, world, params, dateRange, report, pos,
                 task, totalTime, summaryItems, calls>>

NextReport == \/ AskReport
              \/ FlatReportReturns
              \/ FlatReportFails

SpecReport == InitReport /\ [][NextReport]_vars

(***************************************************************************)
(* Properties of the flat task report.                                     *)
(***************************************************************************)
Reported == pc = "done" /\ result.kind \in {"json", "markdown"}

\* Math.round(100 * part / whole) for whole > 0.
RoundedPercent(part, whole) == (200 * part + whole) \div (2 * whole)

\* C28: in a flat task report the percentage of every task row is
\* round(100 * time / T) with T the total of the whole report, whichever user
\* record holds the task.
C28_RowPercentageOfReportTotal ==
  (Reported /\ SumTime(RawData) > 0) =>
    \A i \in DOMAIN summaryItems :
      summaryItems[i].percentage
        = Number(RoundedPercent(summaryItems[i].time, SumTime(RawData)))


(***************************************************************************)
(* stop_timer, by handleStopTimer and by the handler of the tool object:   *)
(* SpecStop.                                                               *)
(***************************************************************************)
\* The entry of a running timer with its start, and what the service holds:
\* no timer or a running one, and the end the service gives the entry when
\* it stops it (a response may come without one).
StartedEntry(taskId, description, start) ==
  [id |-> "e0", task |-> ServiceTask(taskId), description |-> description,
   start |-> MsString(start), end |-> Undefined]

StartInstants ==
  { [day |-> DayIndex(2024, 0, 10), ms |-> 9 * HourMs],
    [day |-> DayIndex(2024, 0, 10), ms |-> 10 * HourMs + 30 * MinuteMs] }

EndStrings ==
  { Undefined,
    MsString([day |-> DayIndex(2024, 0, 10), ms |-> 10 * HourMs + 30 * MinuteMs]),
    MsString([day |-> DayIndex(2024, 0, 10), ms |-> 12 * HourMs]),
    MsString([day |-> DayIndex(2024, 0, 11), ms |-> 30 * MinuteMs]) }

StoppableTimers ==
  {Null} \cup { StartedEntry(id, d, s) : id \in {"t1", "t3"}, d \in {"", "review"},
                                         s \in StartInstants }

StopHandlers == {"handleStopTimer", "stopTimerTool"}

InitStop ==
  /\ tz = "fixed"
  /\ now = [day |-> DayIndex(2024, 0, 11), ms |-> 12 * HourMs]
  /\ resolved = None
  /\ FormatIdle
  /\ \E t \in StoppableTimers, e \in EndStrings :
       /\ world = [current |-> t, end |-> e]
       /\ timer = t
  /\ \E h \in StopHandlers : params = [handler |-> h]
  /\ pc = "start"
  /\ dateRange = None
  /\ report = None
  /\ pos = <<0, 0>>
  /\ task = None
  /\ totalTime = 0
  /\ summaryItems = <<>>
  /\ calls = <<>>
  /\ result = None
  /\ taskIdToUse = None
  /\ listId = None
  /\ walk = 0
  /\ console = <<>>

\* The results of handleStopTimer (started and ended, the local texts of the
\* two instants, left out) and of the tool's handler (started_at and ended_at,
\* the ISO texts, left out).
NoTimerRunning ==
  [kind |-> "json", success |-> FALSE, message |-> "No timer is currently running"]

StoppedDuration(timeEntry) ==
  IF timeEntry.end # Undefined
  THEN Number(TimeDiff(ParseInt(timeEntry.end), ParseInt(timeEntry.start)))
  ELSE Undefined

Stopped(timeEntry) ==
  LET duration == StoppedDuration(timeEntry)
  IN  [kind |-> "json",
       success |-> TRUE,
       message |-> "Timer stopped for task \"" \o timeEntry.task.name \o "\"",
       timeEntry |-> [id |-> timeEntry.id,
                      taskId |-> timeEntry.task.id,
                      taskName |-> timeEntry.task.name,
                      description |-> timeEntry.description,
                      duration |-> duration,
                      durationFormatted |-> IF duration # Undefined /\ duration.value # 0
                                            THEN formatDurationHMS(duration.value)
                                            ELSE Undefined]]

StopError(message) == [kind |-> "text", text |-> "Error stopping timer: " \o message]

NoTimerWasRunning == [kind |-> "json", status |-> "No timer was running"]

\* new Date(NaN).toISOString() throws when the entry has no end.
ToolStopped(stoppedTimer) ==
  IF stoppedTimer.end = Undefined THEN ToolError("Invalid time value")
  ELSE LET duration == TimeDiff(ParseInt(stoppedTimer.end), ParseInt(stoppedTimer.start))
       IN  [kind |-> "json",
            status |-> "Timer stopped",
            task |-> [id |-> stoppedTimer.task.id, name |-> stoppedTimer.task.name],
            duration |-> formatDuration(duration),
            duration_ms |-> duration,
            description |-> stoppedTimer.description]

StopMessage(at) ==
  CASE at = "current" -> "Failed to get current timer: Network Error"
    [] at = "stopping" -> "Failed to stop timer: Network Error"
    [] at = "toolStopping" -> "Failed to stop timer: Network Error"

\* handleStopTimer asks for the current timer.
HandleStopTimer ==
  /\ pc = "start"
  /\ params.handler = "handleStopTimer"
  /\ pc' = "current"
  /\ calls' = Append(calls, [op |-> "getCurrentTimer"])
  /\ UNCHANGED <<timerVars, envVars, resolveVars, fmtVars, world, params, sumLocals, result>>

StopCurrentReturns_noCheck ==
  /\ pc = "current"
  /\ params.handler = "handleStopTimer"
  /\ pc' = "stopping"
  /\ calls' = Append(calls, [op |-> "stopTimer"])
  /\ UNCHANGED <<timerVars, envVars, resolveVars, fmtVars, world, params, sumLocals, result>>

\* The current timer arrives: without one the handler returns, with one it
\* asks the service to stop it.
StopCurrentReturns ==
  /\ pc = "current"
  /\ params.handler = "handleStopTimer"
  /\ IF timer = Null
     THEN /\ pc' = "done"
          /\ result' = NoTimerRunning
          /\ UNCHANGED calls
     ELSE /\ pc' = "stopping"
          /\ calls' = Append(calls, [op |-> "stopTimer"])
          /\ UNCHANGED result
  /\ UNCHANGED <<timerVars, envVars, resolveVars, fmtVars, world, params, sumLocals>>

\* The service stopped the timer that was running and answers its entry.
StopReturns ==
  /\ pc = "stopping"
  /\ timer # Null
  /\ pc' = "done"
  /\ timer' = Null
  /\ task' = [timer EXCEPT !.end = world.end]
  /\ result' = Stopped(task')
  /\ UNCHANGED <<envVars, resolveVars, fmtVars, world, params, dateRange, report, pos,
                 totalTime, summaryItems, calls, taskIdToUse, listId, walk, console>>

\* The awaited call of handleStopTimer throws.
StopFails ==
  /\ pc \in {"current", "stopping"}
  /\ params.handler = "handleStopTimer"
  /\ pc' = "done"
  /\ result' = StopError(StopMessage(pc))
  /\ UNCHANGED <<timerVars, envVars, resolveVars, fmtVars, world, params, sumLocals, calls>>

\* The tool's handler asks the service to stop the timer, without a check.
ToolStopTimer ==
  /\ pc = "start"
  /\ params.handler = "stopTimerTool"
  /\ pc' = "toolStopping"
  /\ calls' = Append(calls, [op |-> "stopTimer"])
  /\ UNCHANGED <<timerVars, envVars, resolveVars, fmtVars, world, params, sumLocals, result>>

\* The service answers the stopped entry, or nothing when none was running.
ToolStopReturns ==
  /\ pc = "toolStopping"
  /\ pc' = "done"
  /\ timer' = Null
  /\ IF timer = Null
     THEN /\ result' = NoTimerWasRunning
          /\ UNCHANGED task
     ELSE /\ task' = [timer EXCEPT !.end = world.end]
          /\ result' = ToolStopped(task')
  /\ UNCHANGED <<envVars, resolveVars, fmtVars, world, params, dateRange, report, pos,
                 totalTime, summaryItems, calls, taskIdToUse, listId, walk, console>>

\* The stop call of the tool's handler throws.
ToolStopFails ==
  /\ pc = "toolStopping"
  /\ pc' = "done"
  /\ result' = ToolError(StopMessage(pc))
  /\ UNCHANGED <<timerVars, envVars, resolveVars, fmtVars, world, params, sumLocals, calls>>

NextStop == \/ HandleStopTimer
            \/ StopCurrentReturns
            \/ StopReturns
            \/ StopFails
            \/ ToolStopTimer
            \/ ToolStopReturns
            \/ ToolStopFails

SpecStop == InitStop /\ [][NextStop]_vars

(***************************************************************************)
(* Properties of stop_timer.                                               *)
(***************************************************************************)
StopChecked == params.handler = "handleStopTimer" /\ pc \in {"stopping", "done"}
CheckFailed == pc = "done" /\ result = StopError(StopMessage("current"))

\* C30: when the current-timer check of a stop_timer request reports no
\* running timer, the request ends with the result of success false that says
\* no timer is running, and issues no stop call; when the check reports a
\* timer, the stop call is issued exactly once, and the duration of the
\* result is the end of the stopped entry minus its start.
C30_StopOnlyARunningTimer ==
  (StopChecked /\ ~CheckFailed) =>
    IF world.current = Null
    THEN /\ pc = "done"
         /\ result = NoTimerRunning
         /\ CallsOf("stopTimer") = <<>>
    ELSE /\ Len(CallsOf("stopTimer")) = 1
         /\ (pc = "done" /\ result.kind = "json") =>
              /\ result.success
              /\ result.timeEntry.id = world.current.id
              /\ world.end # Undefined =>
                   result.timeEntry.duration
                     = Number(TimeDiff(world.end.time, world.current.start.time))

\* A timer started at 9:00 was stopped at 12:00: three hours.
C30_Witness ==
  /\ StopChecked
  /\ pc = "done"
  /\ calls = <<[op |-> "getCurrentTimer"], [op |-> "stopTimer"]>>
  /\ result.kind = "json"
  /\ result.timeEntry.duration = Number(3 * HourMs)
  /\ timer = Null


(***************************************************************************)
(* The analyze_time_usage prompt and the reading of the resource it names: *)
(* SpecPrompt.                                                             *)
(***************************************************************************)
\* The place of the first occurrence of sep in s, 0 when there is none.
IndexOf(s, sep) ==
  LET places == {i \in 1..(Len(s) - Len(sep) + 1) : SubSeq(s, i, i + Len(sep) - 1) = sep}
  IN  IF places = {} THEN 0 ELSE CHOOSE i \in places : \A j \in places : i <= j

RECURSIVE Split(_, _)
\* s.split(sep)
Split(s, sep) ==
  LET i == IndexOf(s, sep)
  IN  IF i = 0 THEN <<s>>
      ELSE <<SubSeq(s, 1, i - 1)>> \o Split(SubSeq(s, i + Len(sep), Len(s)), sep)

\* The uri of the resource message of the prompt.
PromptUri(period) ==
  "clickup://timetracking/"
    \o (IF period = "this_week" THEN "week"
        ELSE IF period = "this_month" THEN "month" ELSE period)

PromptPeriodText(period) ==
  CASE period = "today" -> "today"
    [] period = "yesterday" -> "yesterday"
    [] period = "this_week" -> "this week so far"
    [] period = "last_week" -> "last week"
    [] period = "this_month" -> "this month so far"
    [] period = "last_month" -> "last month"
    [] OTHER -> period

PromptMessages(period) ==
  [kind |-> "prompt",
   text |-> "Please analyze my time usage for " \o PromptPeriodText(period) \o ".",
   uri |-> PromptUri(period)]

\* What getResourceContent makes of a uri: the report of a period, the
\* current timer, the history, or undefined.
ResourceOf(uri) ==
  LET halves == Split(uri, "://")
      parts == IF Len(halves) < 2 THEN <<>> ELSE Split(halves[2], "/")
  IN  IF Len(parts) < 2 THEN Undefined
      ELSE IF parts[1] # "timetracking" THEN Undefined
      ELSE CASE parts[2] = "today" -> [kind |-> "report", period |-> "today"]
             [] parts[2] = "yesterday" -> [kind |-> "report", period |-> "yesterday"]
             [] parts[2] = "week" -> [kind |-> "report", period |-> "this_week"]
             [] parts[2] = "month" -> [kind |-> "report", period |-> "this_month"]
             [] parts[2] = "current" -> [kind |-> "current"]
             [] parts[2] = "history" -> [kind |-> "history"]
             [] OTHER -> Undefined

\* The periods asked of the prompt: those it documents, the id of a resource
\* and a string that is neither.
PromptPeriods == NamedPeriods \cup {"week", "next_week"}

InitPrompt ==
  /\ tz = "fixed"
  /\ now = [day |-> DayIndex(2024, 0, 10), ms |-> 12 * HourMs]
  /\ resolved = None
  /\ FormatIdle
  /\ \E rep \in Reports, p \in PromptPeriods :
       /\ world = [report |-> rep, period |-> p]
       /\ params = [handler |-> "handleAnalyzeTimeUsagePrompt", period |-> p]
  /\ pc = "prompt"
  /\ dateRange = None
  /\ report = None
  /\ pos = <<0, 0>>
  /\ task = None
  /\ totalTime = 0
  /\ summaryItems = <<>>
  /\ calls = <<>>
  /\ result = None
  /\ TimerIdle

\* The prompt answers its two messages.
HandleAnalyzeTimeUsagePrompt ==
  /\ pc = "prompt"
  /\ pc' = "prompted"
  /\ result' = PromptMessages(params.period)
  /\ UNCHANGED <<timerVars, envVars, resolveVars, fmtVars, world, params, sumLocals, calls>>

\* The client reads the resource the prompt named: the server throws for a
\* uri that getResourceContent resolves to nothing, and otherwise the report's
\* text is asked for (none of the periods explored names the current timer or
\* the history).
ReadResource ==
  /\ pc = "prompted"
  /\ LET content == ResourceOf(result.uri)
     IN  /\ content = Undefined \/ content.kind = "report"
         /\ IF content = Undefined
            THEN /\ pc' = "done"
                 /\ result' = Thrown("Resource not found: " \o result.uri)
                 /\ UNCHANGED params
            ELSE /\ pc' = "start"
                 /\ params' = [handler |-> "getTimeTrackingReportAsText",
                               period |-> content.period]
                 /\ UNCHANGED result
  /\ UNCHANGED <<timerVars, envVars, resolveVars, fmtVars, world, sumLocals, calls>>

NextPrompt == \/ HandleAnalyzeTimeUsagePrompt
              \/ ReadResource
              \/ AskReport
              \/ FlatReportReturns
              \/ FlatReportFails

SpecPrompt == InitPrompt /\ [][NextPrompt]_vars

\* C27: for every period the prompt documents, the reading of the resource
\* the prompt names ends with content, never with 'Resource not found'.
C27_PromptUriResolves ==
  (world.period \in NamedPeriods /\ pc = "done") => result.kind # "thrown"


(***************************************************************************)
(* Two start_timer requests of handleStartTimer at once: SpecTwoTimers.    *)
(* pc, params, taskIdToUse and result hold one value for each request; the *)
(* timer of the service and the calls are shared.  The handlers run on one *)
(* thread and interleave at their awaits.                                  *)
(***************************************************************************)
Requesters == {"first", "second"}

\* The requests explored give the task's id, or neither id nor name.
TwoTimerRequests ==
  { StartTimerRequest("handleStartTimer", id, Absent, Absent) : id \in {Absent, "t1", "t2"} }

InitTwoTimers ==
  /\ EnvIdle
  /\ resolved = None
  /\ FormatIdle
  /\ world = [timer |-> Null]
  /\ timer = Null
  /\ params \in [Requesters -> TwoTimerRequests]
  /\ pc = [r \in Requesters |-> "start"]
  /\ taskIdToUse = [r \in Requesters |-> Absent]
  /\ result = [r \in Requesters |-> None]
  /\ calls = <<>>
  /\ dateRange = None
  /\ report = None
  /\ pos = <<0, 0>>
  /\ task = None
  /\ totalTime = 0
  /\ summaryItems = <<>>
  /\ listId = None
  /\ walk = 0
  /\ console = <<>>

\* Request r begins: without a task it throws, with one it asks for the
\* current timer.
BeginStartTimer(r) ==
  /\ pc[r] = "start"
  /\ taskIdToUse' = [taskIdToUse EXCEPT ![r] = params[r].taskId]
  /\ IF Missing(params[r].taskId)
     THEN /\ pc' = [pc EXCEPT ![r] = "done"]
          /\ result' = [result EXCEPT ![r] = Rejected("Either taskId or taskName must be provided")]
          /\ UNCHANGED calls
     ELSE /\ pc' = [pc EXCEPT ![r] = "current"]
          /\ calls' = Append(calls, [op |-> "getCurrentTimer", by |-> r])
          /\ UNCHANGED result
  /\ UNCHANGED <<envVars, resolveVars, fmtVars, world, params, sumLocals, timer, listId, walk,
                 console>>

\* The current timer arrives at request r.
CurrentTimerArrives(r) ==
  /\ pc[r] = "current"
  /\ IF timer # Null
     THEN /\ pc' = [pc EXCEPT ![r] = "done"]
          /\ result' = [result EXCEPT ![r] = NotStarted(timer)]
          /\ UNCHANGED calls
     ELSE /\ pc' = [pc EXCEPT ![r] = "starting"]
          /\ calls' = Append(calls, [op |-> "startTimer", taskId |-> taskIdToUse[r], by |-> r])
          /\ UNCHANGED result
  /\ UNCHANGED <<envVars, resolveVars, fmtVars, world, params, sumLocals, timerVars>>

\* The service has started the timer of request r and answers its entry.
StartTimerArrives(r) ==
  /\ pc[r] = "starting"
  /\ timer' = TimerEntry("e-" \o r, taskIdToUse[r], "")
  /\ pc' = [pc EXCEPT ![r] = "done"]
  /\ result' = [result EXCEPT ![r] = Started(timer')]
  /\ UNCHANGED <<envVars, resolveVars, fmtVars, world, params, sumLocals, console, calls,
                 taskIdToUse, listId, walk>>

\* The call request r waits for throws.
AwaitedCallFails(r) ==
  /\ pc[r] \in {"current", "starting"}
  /\ pc' = [pc EXCEPT ![r] = "done"]
  /\ result' = [result EXCEPT ![r] = StartError(UpstreamMessage(pc[r]))]
  /\ UNCHANGED <<envVars, resolveVars, fmtVars, world, params, sumLocals, calls, timerVars>>

NextTwoTimers == \/ \E r \in Requesters : BeginStartTimer(r)
                 \/ \E r \in Requesters : CurrentTimerArrives(r)
                 \/ \E r \in Requesters : StartTimerArrives(r)
                 \/ \E r \in Requesters : AwaitedCallFails(r)

SpecTwoTimers == InitTwoTimers /\ [][NextTwoTimers]_vars

\* C26: of two start_timer requests that run at once while no timer is
\* running, at most one issues the start-timer call; when both have started
\* their current-timer check and neither call failed, the other one ends with
\* the not-started result.
C26_AtMostOneStartCall ==
  /\ Len(CallsOf("startTimer")) <= 1
  /\ (\A r \in Requesters : pc[r] = "done" /\ result[r].kind = "json") =>
       \E r \in Requesters : ~result[r].success


(***************************************************************************)
(* Two summary requests at once: SpecTwoSummaries.  params, pc, dateRange, *)
(* report, pos, task, totalTime, summaryItems and result hold one value    *)
(* for each request; the service and the calls are shared.  The handlers   *)
(* run on one thread and interleave at their awaits.                       *)
(***************************************************************************)
AccumulatorOf_shared(r) == "first"

\* totalTime and summaryItems are declared inside the handler: every request
\* writes its own.
AccumulatorOf(r) == r

\* The reports and the time entries the service answers to both requests.
TwoUserReport ==
  [data |-> << [time |-> 5000, tasks |-> << [id |-> "t1", name |-> "A", time |-> 3000] >>],
               [time |-> 0, tasks |-> << [id |-> "t1", name |-> "A", time |-> 3000],
                                         [id |-> "t2", name |-> "B", time |-> 0] >>] >>]

SharedEntries ==
  [id \in TaskIds |-> IF id = "t1" THEN SubSeq(Entries, 1, 2) ELSE SubSeq(Entries, 2, 2)]

TwoSummaryRequests ==
  GroupRequests \cup DayRequests \cup {Request("custom", Undefined, Undefined, GroupByUndefined)}

InitTwoSummaries ==
  /\ tz = "fixed"
  /\ now = [day |-> DayIndex(2024, 0, 10), ms |-> 12 * HourMs]
  /\ resolved = None
  /\ FormatIdle
  /\ \E rep \in {ExampleReport, TwoUserReport, NoDataReport} :
       world = [report |-> rep, entries |-> SharedEntries]
  /\ params \in [Requesters -> TwoSummaryRequests]
  /\ pc = [r \in Requesters |-> "start"]
  /\ dateRange = [r \in Requesters |-> [start_date |-> EmptyString, end_date |-> EmptyString]]
  /\ report = [r \in Requesters |-> None]
  /\ pos = [r \in Requesters |-> <<0, 0>>]
  /\ task = [r \in Requesters |-> None]
  /\ totalTime = [r \in Requesters |-> 0]
  /\ summaryItems = [r \in Requesters |-> <<>>]
  /\ result = [r \in Requesters |-> None]
  /\ calls = <<>>
  /\ TimerIdle

\* The loops of request r from the place after `at` to its next await, or to
\* its return.
ContinueFor(r, rep, at, total, items) ==
  LET np == NextPos(rep, at)
      tot == EnterUsers(total, rep, at[1] + 1, np[1])
  IN  /\ pos' = [pos EXCEPT ![r] = np]
      /\ totalTime' = [totalTime EXCEPT ![AccumulatorOf(r)] = tot]
      /\ summaryItems' = [summaryItems EXCEPT ![AccumulatorOf(r)] = items]
      /\ IF np[1] > Len(rep.data)
         THEN /\ pc' = [pc EXCEPT ![r] = "done"]
              /\ result' = [result EXCEPT ![r] = SummaryResult(params[r], tot, items)]
              /\ calls' = calls
         ELSE /\ pc' = [pc EXCEPT ![r] = "task"]
              /\ result' = result
              /\ calls' = Append(calls, [op |-> "getTask", by |-> r,
                                         taskId |-> rep.data[np[1]].tasks[np[2]].id])

\* Request r settles its date range and asks for the report.
SummaryBegins(r) ==
  /\ pc[r] = "start"
  /\ IF params[r].period = "custom" /\ CustomBoundsMissing(params[r])
     THEN /\ pc' = [pc EXCEPT ![r] = "done"]
          /\ result' = [result EXCEPT ![r] =
                          ErrorResult("Custom period requires both start_date and end_date")]
          /\ UNCHANGED <<dateRange, calls>>
     ELSE LET range == IF params[r].period = "custom"
                       THEN [start_date |-> params[r].start_date,
                             end_date |-> params[r].end_date]
                       ELSE [start_date |-> getDateRangeForPeriodStr(params[r].period).start_date,
                             end_date |-> getDateRangeForPeriodStr(params[r].period).end_date]
          IN  /\ dateRange' = [dateRange EXCEPT ![r] = range]
              /\ calls' = Append(calls, [op |-> "getTimeTrackingReport", by |-> r,
                                         start_date |-> range.start_date,
                                         end_date |-> range.end_date])
              /\ pc' = [pc EXCEPT ![r] = "report"]
              /\ UNCHANGED result
  /\ UNCHANGED <<timerVars, envVars, resolveVars, fmtVars, world, params, report, pos, task,
                 totalTime, summaryItems>>

\* The report arrives at request r.
ReportArrives(r) ==
  /\ pc[r] = "report"
  /\ report' = [report EXCEPT ![r] = world.report]
  /\ IF HasData(world.report)
     THEN ContinueFor(r, world.report, <<0, 0>>, totalTime[AccumulatorOf(r)],
                      summaryItems[AccumulatorOf(r)])
     ELSE /\ pc' = [pc EXCEPT ![r] = "done"]
          /\ result' = [result EXCEPT ![r] =
                          SummaryResult(params[r], totalTime[AccumulatorOf(r)],
                                        summaryItems[AccumulatorOf(r)])]
          /\ UNCHANGED <<pos, totalTime, summaryItems, calls>>
  /\ UNCHANGED <<timerVars, envVars, resolveVars, fmtVars, world, params, dateRange, task>>

\* The detail of the task at the place of request r arrives.
TaskArrives(r) ==
  /\ pc[r] = "task"
  /\ LET taskData == report[r].data[pos[r][1]].tasks[pos[r][2]]
         detail == TaskDetail(taskData.id)
         groupBy == GroupByOf(params[r])
     IN  /\ task' = [task EXCEPT ![r] = detail]
         /\ IF groupBy = "day"
            THEN /\ pc' = [pc EXCEPT ![r] = "entries"]
                 /\ calls' = Append(calls, [op |-> "getTimeEntries", by |-> r,
                                            task_id |-> taskData.id,
                                            start_date |-> dateRange[r].start_date,
                                            end_date |-> dateRange[r].end_date])
                 /\ UNCHANGED <<pos, totalTime, summaryItems, result>>
            ELSE ContinueFor(r, report[r], pos[r], totalTime[AccumulatorOf(r)],
                             AddToGroup(summaryItems[AccumulatorOf(r)],
                                        GroupingKey(groupBy, taskData.id, detail),
                                        GroupName(groupBy, taskData, detail),
                                        taskData.id, detail.name, taskData.time))
  /\ UNCHANGED <<timerVars, envVars, resolveVars, fmtVars, world, params, dateRange, report>>

\* The time entries of the task at the place of request r arrive.
EntriesArrive(r) ==
  /\ pc[r] = "entries"
  /\ ContinueFor(r, report[r], pos[r], totalTime[AccumulatorOf(r)],
                 AddEntries(summaryItems[AccumulatorOf(r)], world.entries[task[r].id],
                            task[r].id, task[r].name))
  /\ UNCHANGED <<timerVars, envVars, resolveVars, fmtVars, world, params, dateRange, report, task>>

\* The call request r waits for throws.
SummaryCallFails(r) ==
  /\ pc[r] \in {"report", "task", "entries"}
  /\ pc' = [pc EXCEPT ![r] = "done"]
  /\ result' = [result EXCEPT ![r] = ErrorResult(FailureMessage(pc[r]))]
  /\ UNCHANGED <<timerVars, envVars, resolveVars, fmtVars, world, params, dateRange, report, pos,
                 task, totalTime, summaryItems, calls>>

NextTwoSummaries == \/ \E r \in Requesters : SummaryBegins(r)
                    \/ \E r \in Requesters : ReportArrives(r)
                    \/ \E r \in Requesters : TaskArrives(r)
                    \/ \E r \in Requesters : EntriesArrive(r)
                    \/ \E r \in Requesters : SummaryCallFails(r)

SpecTwoSummaries == InitTwoSummaries /\ [][NextTwoSummaries]_vars

\* C24: of two summary requests that interleave at their awaits, each one
\* that returns a summary returns the summary it returns when it runs alone
\* against the same answers of the service.
C24_ConcurrentSummariesAreIndependent ==
  \A r \in Requesters :
    (pc[r] = "done" /\ result[r].kind = "summary") => result[r] = SummaryOf(params[r], world)

\* Both requests were past their first task when the other one went on, and
\* both returned the summaries of different groupings with time in them.
C24_Witness ==
  /\ \A r \in Requesters : pc[r] = "done" /\ result[r].kind = "summary"
  /\ world.report = TwoUserReport
  /\ result["first"].groupedBy = "day"
  /\ result["second"].groupedBy = "list"
  /\ result["first"].summary # <<>>
  /\ result["second"].summary # <<>>
  /\ \E i, j \in DOMAIN calls :
       /\ i < j /\ j < Len(calls)
       /\ calls[i].by = "second" /\ calls[j].by = "first" /\ calls[Len(calls)].by = "second"
       /\ \E h \in 1..(i - 1) : calls[h].by = "first"

=============================================================================
